---- MODULE Spec2Model ----
(***************************************************************************)
(* SiTerm firmware connection pipeline: the transport framing codec        *)
(* (protocol/src/lib.rs), the command codec, and the connection state     *)
(* machine (fw/rp2040/src/state.rs) with its USB write helpers             *)
(* (fw/rp2040/src/usb_transport.rs).                                       *)
(*                                                                         *)
(* The StateMachine struct is the record held by the variable sm.  The    *)
(* methods of the struct are operators from a machine record to a machine *)
(* record.  The async entry points (consume, handle_handshake_timeout,    *)
(* handle_buffer_overflow) run from one await to the next in one action:  *)
(* the awaits are the USB packet writes and the peripheral handler call.  *)
(* Bytes are the integers 0..255; strings are sequences of bytes.         *)
(***************************************************************************)
EXTENDS Integers, Sequences, FiniteSets, TLC

(***************************************************************************)
(* Capacities.  The firmware's buffers are heapless::Vec<u8, N>; the model *)
(* keeps every relation between the capacities that the code depends on   *)
(* (FRAME_BUFFER_SIZE > MAX_COMMAND_SIZE + 1, every error message and the *)
(* echo prefix fit MAX_COMMAND_SIZE, the handshake line fits               *)
(* HANDSHAKE_BUFFER_SIZE, an encoded response fits                         *)
(* ENCODED_FRAME_BUFFER_SIZE) at sizes a model checker can enumerate:     *)
(* source values are 64, 64, 512, 256 and 320.                             *)
(***************************************************************************)
READ_BUFFER_SIZE == 16
HANDSHAKE_BUFFER_SIZE == 10
FRAME_BUFFER_SIZE == 36
MAX_COMMAND_SIZE == 32
ENCODED_FRAME_BUFFER_SIZE == 40


RECURSIVE Pow(_, _)
Pow(b, e) == IF e = 0 THEN 1 ELSE b * Pow(b, e - 1)

\* protocol/src/lib.rs:61, in seconds.
HANDSHAKE_TIMEOUT == 3

\* postcard varint_max::<usize>() and max_of_last_byte::<usize>() on the 32-bit
\* target: at most 5 bytes, the last of them carrying 4 bits.
VARINT_MAX == (32 + 6) \div 7
MAX_OF_LAST_BYTE == Pow(2, 32 % 7) - 1

NONE == -1

\* "SiTerm?"
HANDSHAKE_COMMAND == <<83, 105, 84, 101, 114, 109, 63>>
\* "SiTerm v1.0"
HANDSHAKE_RESPONSE == <<83, 105, 84, 101, 114, 109, 32, 118, 49, 46, 48>>
\* "\n"
HANDSHAKE_DELIMITER == <<10>>
\* "rp2040: "
ECHO_PREFIX == <<114, 112, 50, 48, 52, 48, 58, 32>>
\* "ERR: "
ERR_PREFIX == <<69, 82, 82, 58, 32>>
\* ": "
ERR_SEPARATOR == <<58, 32>>

Min(a, b) == IF a < b THEN a ELSE b

\* The element of a set of one element.  With { e(x) : x \in {v} } it gives
\* e(v), v being worked out once however often e uses it.
Only(S) == CHOOSE x \in S : TRUE

\* n filler bytes.  Where a frame starts, 127 is the length prefix of a frame
\* longer than the frame buffer.
Filler(n) == [i \in 1..n |-> 127]

RECURSIVE Flatten(_)
Flatten(ss) == IF ss = <<>> THEN <<>> ELSE Head(ss) \o Flatten(Tail(ss))

(***************************************************************************)
(* heapless::Vec                                                           *)
(***************************************************************************)
\* Vec::push: Err when the vector is full.
push_fails(buf, cap) == Len(buf) >= cap

\* Vec::extend_from_slice: all or nothing.
extend_fails(buf, slice, cap) == Len(buf) + Len(slice) > cap

extend_from_slice(buf, slice, cap) ==
    IF extend_fails(buf, slice, cap) THEN buf ELSE buf \o slice

drop_prefix_keeps_all(buffer, count) == buffer

\* usb_transport.rs drop_prefix
drop_prefix(buffer, count) ==
    IF count = 0 THEN buffer
    ELSE IF count >= Len(buffer) THEN <<>>
    ELSE [i \in 1..(Len(buffer) - count) |-> buffer[i + count]]

(***************************************************************************)
(* Transport framing codec: postcard's encoding of Frame { payload: &[u8] }*)
(* is a varint length followed by the payload bytes.                       *)
(***************************************************************************)
\* A length prefix that is cut to its low seven bits.
encode_varint_low_bits(n) == <<n % 128>>

RECURSIVE encode_varint(_)
encode_varint(n) ==
    IF n < 128 THEN <<n>> ELSE <<128 + (n % 128)>> \o encode_varint(n \div 128)

\* transport::encode_into: Err (SerializeBufferFull) when the frame does not
\* fit the destination.
encode_into(payload, size) ==
    LET bytes == encode_varint(Len(payload)) \o payload
    IN IF Len(bytes) > size THEN [tag |-> "Err", bytes |-> <<>>]
       ELSE [tag |-> "Ok", bytes |-> bytes]

\* postcard try_take_varint_u32.  The first four bytes give a value below
\* 2^28.  A fifth byte adds its low four bits at bit 28: such a length is
\* larger than any buffer, and is kept as a value of at least 2^28 (the exact
\* high bits exceed the checker's integers and are never read).
RECURSIVE try_take_varint(_, _, _)
try_take_varint(bytes, i, out) ==
    IF i = VARINT_MAX THEN [tag |-> "BadVarint", val |-> 0, used |-> 0]
    ELSE IF Len(bytes) < i + 1 THEN [tag |-> "UnexpectedEnd", val |-> 0, used |-> 0]
    ELSE LET val == bytes[i + 1]
             acc == IF i < VARINT_MAX - 1
                    THEN out + (val % 128) * Pow(128, i)
                    ELSE out + Min(val % 16, 1) * Pow(2, 28)
         IN IF val < 128
            THEN IF i = VARINT_MAX - 1 /\ val > MAX_OF_LAST_BYTE
                 THEN [tag |-> "BadVarint", val |-> 0, used |-> 0]
                 ELSE [tag |-> "Ok", val |-> acc, used |-> i + 1]
            ELSE try_take_varint(bytes, i + 1, acc)

\* transport::take_from_bytes: the first frame of bytes and what follows it.
take_from_bytes(bytes) ==
    Only({
        IF v.tag # "Ok"
        THEN [tag |-> v.tag, payload |-> <<>>, remaining |-> <<>>]
        ELSE IF Len(bytes) - v.used < v.val
        THEN [tag |-> "UnexpectedEnd", payload |-> <<>>, remaining |-> <<>>]
        ELSE [tag |-> "Ok",
              payload |-> SubSeq(bytes, v.used + 1, v.used + v.val),
              remaining |-> SubSeq(bytes, v.used + v.val + 1, Len(bytes))]
        : v \in {try_take_varint(bytes, 0, 0)}})

(***************************************************************************)
(* Command codec (firmware side)                                           *)
(***************************************************************************)
METHOD_ECHO == 1
METHOD_I2C == 2
METHOD_SPI == 3
METHOD_UART == 4
METHOD_PWM == 5
OPERATION_READ == 1
OPERATION_WRITE == 2

Method_from_byte(b) == b \in {METHOD_ECHO, METHOD_I2C, METHOD_SPI, METHOD_UART, METHOD_PWM}
Operation_from_byte(b) == b \in {OPERATION_READ, OPERATION_WRITE}

\* lib.rs COMMAND_DICTIONARY: the supported (method, operation) pairs.
COMMAND_DICTIONARY ==
    {<<METHOD_ECHO, OPERATION_WRITE>>, <<METHOD_I2C, OPERATION_READ>>}

NoCommand == [kind |-> "None"]

ProtocolErr(e) == [tag |-> "Err", err |-> e, cmd |-> NoCommand]

\* decode_command that takes a short I2C read for an unsupported operation.
decode_command_one_rejection(buffer) ==
    IF Len(buffer) = 0 THEN ProtocolErr("Empty")
    ELSE IF ~Method_from_byte(buffer[1]) THEN ProtocolErr("UnknownMethod")
    ELSE IF Len(buffer) = 1 THEN ProtocolErr("Empty")
    ELSE IF ~Operation_from_byte(buffer[2]) THEN ProtocolErr("UnknownOperation")
    ELSE LET payload == SubSeq(buffer, 3, Len(buffer))
         IN IF buffer[1] = METHOD_ECHO /\ buffer[2] = OPERATION_WRITE
            THEN [tag |-> "Ok", err |-> "None",
                  cmd |-> [kind |-> "EchoWrite", payload |-> payload]]
            ELSE IF buffer[1] = METHOD_I2C /\ buffer[2] = OPERATION_READ /\ Len(payload) >= 3
            THEN [tag |-> "Ok", err |-> "None",
                  cmd |-> [kind |-> "I2cRead", address |-> payload[1],
                           register |-> payload[2], length |-> payload[3]]]
            ELSE ProtocolErr("UnsupportedOperation")

decode_command(buffer) ==
    IF Len(buffer) = 0 THEN ProtocolErr("Empty")
    ELSE IF ~Method_from_byte(buffer[1]) THEN ProtocolErr("UnknownMethod")
    ELSE IF Len(buffer) = 1 THEN ProtocolErr("Empty")
    ELSE IF ~Operation_from_byte(buffer[2]) THEN ProtocolErr("UnknownOperation")
    ELSE LET payload == SubSeq(buffer, 3, Len(buffer))
         IN IF buffer[1] = METHOD_ECHO /\ buffer[2] = OPERATION_WRITE
            THEN [tag |-> "Ok", err |-> "None",
                  cmd |-> [kind |-> "EchoWrite", payload |-> payload]]
            ELSE IF buffer[1] = METHOD_I2C /\ buffer[2] = OPERATION_READ
            THEN IF Len(payload) < 3 THEN ProtocolErr("MalformedPayload")
                 ELSE [tag |-> "Ok", err |-> "None",
                       cmd |-> [kind |-> "I2cRead", address |-> payload[1],
                                register |-> payload[2], length |-> payload[3]]]
            ELSE ProtocolErr("UnsupportedOperation")

(***************************************************************************)
(* Error kinds and their names (state.rs Error::as_str)                    *)
(***************************************************************************)
ErrorKinds ==
    {"InvalidChecksum", "UnknownCommand", "Timeout", "ExecutionFailed",
     "BufferProcessFailed"}

Error_as_bytes(err) ==
    CASE err = "InvalidChecksum" ->
            <<73, 110, 118, 97, 108, 105, 100, 67, 104, 101, 99, 107, 115, 117, 109>>
      [] err = "UnknownCommand" ->
            <<85, 110, 107, 110, 111, 119, 110, 67, 111, 109, 109, 97, 110, 100>>
      [] err = "Timeout" -> <<84, 105, 109, 101, 111, 117, 116>>
      [] err = "ExecutionFailed" ->
            <<69, 120, 101, 99, 117, 116, 105, 111, 110, 70, 97, 105, 108, 101, 100>>
      [] err = "BufferProcessFailed" ->
            <<66, 117, 102, 102, 101, 114, 80, 114, 111, 99, 101, 115, 115, 70, 97,
              105, 108, 101, 100>>

\* A mapping that reports every decode failure as InvalidChecksum.
map_protocol_error_one_kind(e) == "InvalidChecksum"

map_protocol_error(e) ==
    IF e \in {"Empty", "MalformedPayload"} THEN "InvalidChecksum" ELSE "UnknownCommand"

(***************************************************************************)
(* SystemState and the StateMachine struct                                 *)
(***************************************************************************)
State(tag) == [tag |-> tag, err |-> "None"]
ErrorState(err) == [tag |-> "Error", err |-> err]

S_Init == State("Init")
WaitForHandshake == State("WaitForHandshake")
WaitForMessage == State("WaitForMessage")
ParseCommand == State("ParseCommand")
ExecuteAction == State("ExecuteAction")
SendResponse == State("SendResponse")

\* StateMachine::new
new ==
    [state |-> S_Init,
     handshake_buf |-> <<>>,
     frame_buf |-> <<>>,
     command_buf |-> <<>>,
     response_buf |-> <<>>,
     pending_command |-> NoCommand,
     handshake_deadline |-> NONE,
     handshake_complete |-> FALSE]

set_state(m, state) == [m EXCEPT !.state = state]

\* handshake_deadline holds the deadline as the time left until it, that is
\* as deadline - Instant::now(): Instant::now() + hs_timeout is hs_timeout.
schedule_handshake_deadline(m) ==
    [m EXCEPT !.handshake_deadline = HANDSHAKE_TIMEOUT]

\* A reset that leaves the frame buffer and the response buffer as they are.
reset_keeps_buffers(m) ==
    set_state(
        schedule_handshake_deadline(
            [m EXCEPT !.handshake_buf = <<>>,
                      !.command_buf = <<>>,
                      !.pending_command = NoCommand,
                      !.handshake_complete = FALSE,
                      !.handshake_deadline = NONE]),
        S_Init)

reset(m) ==
    set_state(
        schedule_handshake_deadline(
            [m EXCEPT !.handshake_buf = <<>>,
                      !.frame_buf = <<>>,
                      !.command_buf = <<>>,
                      !.response_buf = <<>>,
                      !.pending_command = NoCommand,
                      !.handshake_complete = FALSE,
                      !.handshake_deadline = NONE]),
        S_Init)

enter_error(m, err) ==
    set_state([m EXCEPT !.pending_command = NoCommand, !.command_buf = <<>>],
              ErrorState(err))

\* NONE when not applicable, else the time left (0 once the deadline passed).
handshake_timeout_remaining(m) ==
    IF m.handshake_complete THEN NONE
    ELSE IF m.state \notin {WaitForHandshake, S_Init} THEN NONE
    ELSE IF m.handshake_deadline = NONE THEN NONE
    ELSE IF m.handshake_deadline <= 0 THEN 0
    ELSE m.handshake_deadline

(***************************************************************************)
(* Frame reassembly, command decode and execution                          *)
(***************************************************************************)
\* take_ready_frame that drops a frame too large for the command buffer and
\* keeps what follows it.
take_ready_frame_drops_frame_only(m) ==
    LET f == take_from_bytes(m.frame_buf)
        consumed == Len(m.frame_buf) - Len(f.remaining)
    IN IF f.tag = "Ok"
       THEN IF extend_fails(<<>>, f.payload, MAX_COMMAND_SIZE)
            THEN [res |-> "Err", err |-> "InvalidChecksum",
                  m |-> [m EXCEPT !.command_buf = <<>>,
                                  !.frame_buf = drop_prefix(m.frame_buf, consumed)]]
            ELSE [res |-> "Some", err |-> "None",
                  m |-> [m EXCEPT !.command_buf = f.payload,
                                  !.frame_buf = drop_prefix(m.frame_buf, consumed)]]
       ELSE IF f.tag = "UnexpectedEnd"
       THEN [res |-> "None", err |-> "None", m |-> m]
       ELSE [res |-> "Err", err |-> "InvalidChecksum",
             m |-> [m EXCEPT !.frame_buf = <<>>]]

\* take_ready_frame that empties the frame buffer when the frame is incomplete.
take_ready_frame_clears_incomplete(m) ==
    LET f == take_from_bytes(m.frame_buf)
        consumed == Len(m.frame_buf) - Len(f.remaining)
    IN IF f.tag = "Ok"
       THEN IF extend_fails(<<>>, f.payload, MAX_COMMAND_SIZE)
            THEN [res |-> "Err", err |-> "InvalidChecksum",
                  m |-> [m EXCEPT !.command_buf = <<>>, !.frame_buf = <<>>]]
            ELSE [res |-> "Some", err |-> "None",
                  m |-> [m EXCEPT !.command_buf = f.payload,
                                  !.frame_buf = drop_prefix(m.frame_buf, consumed)]]
       ELSE IF f.tag = "UnexpectedEnd"
       THEN [res |-> "None", err |-> "None", m |-> [m EXCEPT !.frame_buf = <<>>]]
       ELSE [res |-> "Err", err |-> "InvalidChecksum",
             m |-> [m EXCEPT !.frame_buf = <<>>]]

\* take_ready_frame that waits for more bytes on every frame error.
take_ready_frame_waits_on_error(m) ==
    LET f == take_from_bytes(m.frame_buf)
        consumed == Len(m.frame_buf) - Len(f.remaining)
    IN IF f.tag = "Ok"
       THEN IF extend_fails(<<>>, f.payload, MAX_COMMAND_SIZE)
            THEN [res |-> "Err", err |-> "InvalidChecksum",
                  m |-> [m EXCEPT !.command_buf = <<>>, !.frame_buf = <<>>]]
            ELSE [res |-> "Some", err |-> "None",
                  m |-> [m EXCEPT !.command_buf = f.payload,
                                  !.frame_buf = drop_prefix(m.frame_buf, consumed)]]
       ELSE [res |-> "None", err |-> "None", m |-> m]

\* res is "Some" (a frame was taken into command_buf), "None" (more bytes are
\* needed) or "Err".
take_ready_frame(m) ==
    Only({
        IF f.tag = "Ok"
        THEN LET consumed == Len(m.frame_buf) - Len(f.remaining)
             IN IF extend_fails(<<>>, f.payload, MAX_COMMAND_SIZE)
                THEN [res |-> "Err", err |-> "InvalidChecksum",
                      m |-> [m EXCEPT !.command_buf = <<>>, !.frame_buf = <<>>]]
                ELSE [res |-> "Some", err |-> "None",
                      m |-> [m EXCEPT !.command_buf = f.payload,
                                      !.frame_buf = drop_prefix(m.frame_buf, consumed)]]
        ELSE IF f.tag = "UnexpectedEnd"
        THEN [res |-> "None", err |-> "None", m |-> m]
        ELSE [res |-> "Err", err |-> "InvalidChecksum",
              m |-> [m EXCEPT !.frame_buf = <<>>]]
        : f \in {take_from_bytes(m.frame_buf)}})

\* CommandOwned::from_command: the payload is copied into a Vec of
\* MAX_COMMAND_SIZE bytes.
from_command(cmd) ==
    IF cmd.kind = "EchoWrite" /\ extend_fails(<<>>, cmd.payload, MAX_COMMAND_SIZE)
    THEN [tag |-> "Err", err |-> "ExecutionFailed", cmd |-> NoCommand]
    ELSE [tag |-> "Ok", err |-> "None", cmd |-> cmd]

\* decode_pending_command that leaves no pending command.
decode_pending_command_forgets(m) ==
    LET d == decode_command(m.command_buf)
    IN IF d.tag = "Ok"
       THEN [res |-> "Ok", err |-> "None", m |-> [m EXCEPT !.command_buf = <<>>]]
       ELSE [res |-> "Err", err |-> map_protocol_error(d.err), m |-> m]

decode_pending_command(m) ==
    LET d == decode_command(m.command_buf)
    IN IF d.tag = "Ok"
       THEN LET owned == from_command(d.cmd)
            IN IF owned.tag = "Ok"
               THEN [res |-> "Ok", err |-> "None",
                     m |-> [m EXCEPT !.pending_command = owned.cmd,
                                     !.command_buf = <<>>]]
               ELSE [res |-> "Err", err |-> owned.err, m |-> m]
       ELSE [res |-> "Err", err |-> map_protocol_error(d.err), m |-> m]

\* An echo handler that answers with the payload alone.
echo_execute_without_prefix(payload, response_buf) ==
    IF extend_fails(response_buf, payload, MAX_COMMAND_SIZE)
    THEN [res |-> "Err", err |-> "ExecutionFailed", buf |-> response_buf]
    ELSE [res |-> "Ok", err |-> "None", buf |-> response_buf \o payload]

\* handlers/echo.rs execute: what was appended before a failure stays in the
\* response buffer.
echo_execute(payload, response_buf) ==
    IF extend_fails(response_buf, ECHO_PREFIX, MAX_COMMAND_SIZE)
    THEN [res |-> "Err", err |-> "ExecutionFailed", buf |-> response_buf]
    ELSE LET with_prefix == response_buf \o ECHO_PREFIX
         IN IF extend_fails(with_prefix, payload, MAX_COMMAND_SIZE)
            THEN [res |-> "Err", err |-> "ExecutionFailed", buf |-> with_prefix]
            ELSE [res |-> "Ok", err |-> "None", buf |-> with_prefix \o payload]

\* handlers/i2c.rs execute_read: the outcomes of the bus transfer.  A read
\* appends the one byte read; a bus error is mapped by map_i2c_err.
\* The errors of the I2C bus driver.
I2cErrors == {"Abort", "InvalidReadBufferLength", "InvalidWriteBufferLength",
              "AddressOutOfRange"}

map_i2c_err(e) ==
    CASE e = "Abort" -> "ExecutionFailed"
      [] e = "InvalidReadBufferLength" -> "InvalidChecksum"
      [] e = "AddressOutOfRange" -> "Timeout"
      [] OTHER -> "UnknownCommand"

I2cOutcomes ==
    {[res |-> "Ok", err |-> "None", byte |-> 66]}
    \cup {[res |-> "Err", err |-> map_i2c_err(e), byte |-> 0] : e \in I2cErrors}

i2c_execute_read(outcome, response_buf) ==
    IF outcome.res = "Err" THEN [res |-> "Err", err |-> outcome.err, buf |-> response_buf]
    ELSE IF extend_fails(response_buf, <<outcome.byte>>, MAX_COMMAND_SIZE)
    THEN [res |-> "Err", err |-> "InvalidChecksum", buf |-> response_buf]
    ELSE [res |-> "Ok", err |-> "None", buf |-> response_buf \o <<outcome.byte>>]

\* flush_error up to its send: the response buffer becomes the error message,
\* followed by what the buffer held.
error_message(m, err) ==
    LET errored_buffer == extend_from_slice(<<>>, m.response_buf, MAX_COMMAND_SIZE)
        b1 == extend_from_slice(<<>>, ERR_PREFIX, MAX_COMMAND_SIZE)
        b2 == extend_from_slice(b1, Error_as_bytes(err), MAX_COMMAND_SIZE)
        b3 == IF errored_buffer # <<>>
              THEN extend_from_slice(
                       extend_from_slice(b2, ERR_SEPARATOR, MAX_COMMAND_SIZE),
                       errored_buffer, MAX_COMMAND_SIZE)
              ELSE b2
    IN b3

\* send_framed_payload: the packets written, none when encoding fails.
RECURSIVE Chunks(_, _)
Chunks(bytes, size) ==
    IF Len(bytes) = 0 THEN <<>>
    ELSE LET end == Min(size, Len(bytes))
         IN <<SubSeq(bytes, 1, end)>> \o Chunks(SubSeq(bytes, end + 1, Len(bytes)), size)

\* send_framed_payload that encodes into a buffer of one packet.
framed_packets_in_packet_buffer(payload) ==
    LET e == encode_into(payload, READ_BUFFER_SIZE)
    IN IF e.tag = "Err" THEN <<>> ELSE Chunks(e.bytes, READ_BUFFER_SIZE)

framed_packets(payload) ==
    LET e == encode_into(payload, ENCODED_FRAME_BUFFER_SIZE)
    IN IF e.tag = "Err" THEN <<>> ELSE Chunks(e.bytes, READ_BUFFER_SIZE)

(***************************************************************************)
(* The handshake matcher and the byte ingestion of consume                 *)
(***************************************************************************)
\* step_handshake that compares the line without its first byte.
step_handshake_skips_first(m, byte) ==
    IF push_fails(m.handshake_buf, HANDSHAKE_BUFFER_SIZE)
    THEN [m |-> [m EXCEPT !.handshake_buf = <<>>], write |-> FALSE]
    ELSE LET buffer == Append(m.handshake_buf, byte)
         IN IF buffer[Len(buffer)] # HANDSHAKE_DELIMITER[1]
            THEN [m |-> [m EXCEPT !.handshake_buf = buffer], write |-> FALSE]
            ELSE [m |-> [m EXCEPT !.handshake_buf = <<>>],
                  write |-> SubSeq(buffer, 2, Len(buffer) - 1) = HANDSHAKE_COMMAND]

\* step_handshake that starts the next line with the byte that did not fit.
step_handshake_keeps_byte(m, byte) ==
    IF push_fails(m.handshake_buf, HANDSHAKE_BUFFER_SIZE)
    THEN [m |-> [m EXCEPT !.handshake_buf = <<byte>>], write |-> FALSE]
    ELSE LET buffer == Append(m.handshake_buf, byte)
             dl == Len(HANDSHAKE_DELIMITER)
         IN IF Len(buffer) < dl
               \/ SubSeq(buffer, Len(buffer) - dl + 1, Len(buffer)) # HANDSHAKE_DELIMITER
            THEN [m |-> [m EXCEPT !.handshake_buf = buffer], write |-> FALSE]
            ELSE [m |-> [m EXCEPT !.handshake_buf = <<>>],
                  write |-> SubSeq(buffer, 1, Len(buffer) - dl) = HANDSHAKE_COMMAND]

\* step_handshake that marks the handshake complete before its write.
step_handshake_completes_early(m, byte) ==
    IF push_fails(m.handshake_buf, HANDSHAKE_BUFFER_SIZE)
    THEN [m |-> [m EXCEPT !.handshake_buf = <<>>], write |-> FALSE]
    ELSE LET buffer == Append(m.handshake_buf, byte)
             dl == Len(HANDSHAKE_DELIMITER)
         IN IF Len(buffer) < dl
               \/ SubSeq(buffer, Len(buffer) - dl + 1, Len(buffer)) # HANDSHAKE_DELIMITER
            THEN [m |-> [m EXCEPT !.handshake_buf = buffer], write |-> FALSE]
            ELSE LET command_matches ==
                         SubSeq(buffer, 1, Len(buffer) - dl) = HANDSHAKE_COMMAND
                 IN [m |-> [m EXCEPT !.handshake_buf = <<>>,
                                     !.handshake_complete = @ \/ command_matches],
                     write |-> command_matches]

\* step_handshake up to its write: write is TRUE when the line matched and
\* the handshake response is to be written.
step_handshake(m, byte) ==
    IF push_fails(m.handshake_buf, HANDSHAKE_BUFFER_SIZE)
    THEN [m |-> [m EXCEPT !.handshake_buf = <<>>], write |-> FALSE]
    ELSE LET buffer == Append(m.handshake_buf, byte)
             dl == Len(HANDSHAKE_DELIMITER)
         IN IF Len(buffer) < dl
               \/ SubSeq(buffer, Len(buffer) - dl + 1, Len(buffer)) # HANDSHAKE_DELIMITER
            THEN [m |-> [m EXCEPT !.handshake_buf = buffer], write |-> FALSE]
            ELSE LET command_matches ==
                         SubSeq(buffer, 1, Len(buffer) - dl) = HANDSHAKE_COMMAND
                 IN [m |-> [m EXCEPT !.handshake_buf = <<>>],
                     write |-> command_matches]

\* step_handshake that leaves the deadline armed.
after_handshake_response_keeps_deadline(m) ==
    set_state([m EXCEPT !.frame_buf = <<>>, !.handshake_complete = TRUE],
              WaitForMessage)

\* step_handshake after its write returned Ok.
after_handshake_response(m) ==
    set_state([m EXCEPT !.frame_buf = <<>>,
                        !.handshake_complete = TRUE,
                        !.handshake_deadline = NONE],
              WaitForMessage)

\* The WaitForMessage arm that leaves the full frame buffer as it is.
push_frame_byte_keeps_buffer(m, byte) ==
    IF push_fails(m.frame_buf, FRAME_BUFFER_SIZE)
    THEN enter_error(m, "InvalidChecksum")
    ELSE [m EXCEPT !.frame_buf = Append(m.frame_buf, byte)]

\* consume, the WaitForMessage arm of the byte loop.
push_frame_byte(m, byte) ==
    IF push_fails(m.frame_buf, FRAME_BUFFER_SIZE)
    THEN enter_error([m EXCEPT !.frame_buf = <<>>], "InvalidChecksum")
    ELSE [m EXCEPT !.frame_buf = Append(m.frame_buf, byte)]

(***************************************************************************)
(* advance: one operator per arm of the match.  next is "loop" (the loop   *)
(* goes on), "return" (advance returns Ok) or the await the arm stops at.  *)
(***************************************************************************)
\* The Init arm that arms no deadline.
arm_Init_without_deadline(m) == [m |-> set_state(m, WaitForHandshake), next |-> "loop"]

arm_Init(m) ==
    [m |-> set_state(IF m.handshake_deadline = NONE
                     THEN schedule_handshake_deadline(m) ELSE m,
                     WaitForHandshake),
     next |-> "loop"]

arm_WaitForHandshake(m) == [m |-> m, next |-> "return"]

arm_WaitForMessage(m) ==
    Only({
        IF r.res = "Some" THEN [m |-> set_state(r.m, ParseCommand), next |-> "loop"]
        ELSE IF r.res = "None" THEN [m |-> r.m, next |-> "return"]
        ELSE [m |-> enter_error(r.m, r.err), next |-> "loop"]
        : r \in {take_ready_frame(m)}})

\* The ParseCommand arm that returns from advance with the command decoded.
arm_ParseCommand_returns(m) ==
    LET r == decode_pending_command(m)
    IN IF r.res = "Ok" THEN [m |-> set_state(r.m, ExecuteAction), next |-> "return"]
       ELSE [m |-> enter_error(r.m, r.err), next |-> "loop"]

\* The ParseCommand arm that goes to SendResponse without the handler.
arm_ParseCommand_sends_at_once(m) ==
    LET r == decode_pending_command(m)
    IN IF r.res = "Ok" THEN [m |-> set_state(r.m, SendResponse), next |-> "loop"]
       ELSE [m |-> enter_error(r.m, r.err), next |-> "loop"]

arm_ParseCommand(m) ==
    LET r == decode_pending_command(m)
    IN IF r.res = "Ok" THEN [m |-> set_state(r.m, ExecuteAction), next |-> "loop"]
       ELSE [m |-> enter_error(r.m, r.err), next |-> "loop"]

\* perform_command: the echo handler runs in place, the I2C handler is awaited.
arm_ExecuteAction(m) ==
    IF m.pending_command.kind = "None"
    THEN [m |-> set_state(m, SendResponse), next |-> "loop"]
    ELSE LET cmd == m.pending_command
             m1 == [m EXCEPT !.pending_command = NoCommand, !.response_buf = <<>>]
         IN IF cmd.kind = "EchoWrite"
            THEN LET r == echo_execute(cmd.payload, m1.response_buf)
                     m2 == [m1 EXCEPT !.response_buf = r.buf]
                 IN IF r.res = "Ok"
                    THEN [m |-> set_state(m2, SendResponse), next |-> "loop"]
                    ELSE [m |-> enter_error(m2, r.err), next |-> "loop"]
            ELSE [m |-> m1, next |-> "handler"]

\* advance, ExecuteAction arm, after the awaited handler returned.
after_handler(m, outcome) ==
    LET r == i2c_execute_read(outcome, m.response_buf)
        m2 == [m EXCEPT !.response_buf = r.buf]
    IN IF r.res = "Ok" THEN set_state(m2, SendResponse) ELSE enter_error(m2, r.err)

\* flush_response that leaves the response in the response buffer.
after_flush_response_keeps_response(m) == set_state(m, WaitForMessage)

\* flush_response after its send returned Ok, and the state change that follows.
after_flush_response(m) ==
    set_state([m EXCEPT !.response_buf = <<>>], WaitForMessage)

\* The Error arm that goes back to WaitForHandshake whatever the handshake.
after_flush_error_to_handshake(m) ==
    set_state(schedule_handshake_deadline([m EXCEPT !.response_buf = <<>>]),
              WaitForHandshake)

\* The Error arm that goes back to WaitForMessage whatever the handshake.
after_flush_error_to_message(m) ==
    set_state([m EXCEPT !.response_buf = <<>>], WaitForMessage)

\* flush_error after its send returned Ok, and the state change that follows.
after_flush_error(m) ==
    LET m1 == [m EXCEPT !.response_buf = <<>>]
    IN IF m1.handshake_complete
       THEN set_state(m1, WaitForMessage)
       ELSE set_state(schedule_handshake_deadline(m1), WaitForHandshake)

arm_SendResponse(m) ==
    IF framed_packets(m.response_buf) = <<>>
    THEN [m |-> after_flush_response(m), next |-> "loop"]
    ELSE [m |-> m, next |-> "flush_response"]

arm_Error(m) ==
    LET m1 == [m EXCEPT !.response_buf = error_message(m, m.state.err)]
    IN IF framed_packets(m1.response_buf) = <<>>
       THEN [m |-> after_flush_error(m1), next |-> "loop"]
       ELSE [m |-> m1, next |-> "flush_error"]

advance_step(m) ==
    CASE m.state = S_Init -> arm_Init(m)
      [] m.state = WaitForHandshake -> arm_WaitForHandshake(m)
      [] m.state = WaitForMessage -> arm_WaitForMessage(m)
      [] m.state = ParseCommand -> arm_ParseCommand(m)
      [] m.state = ExecuteAction -> arm_ExecuteAction(m)
      [] m.state = SendResponse -> arm_SendResponse(m)
      [] m.state.tag = "Error" -> arm_Error(m)

\* advance without its loop: one arm, then it yields.
advance_once(m) ==
    LET s == advance_step(m)
    IN [m |-> s.m, next |-> IF s.next = "loop" THEN "return" ELSE s.next]

RECURSIVE advance(_)
advance(m) ==
    Only({IF s.next = "loop" THEN advance(s.m) ELSE s : s \in {advance_step(m)}})

(***************************************************************************)
(* consume from any of its calls of advance to the next await or to its    *)
(* return: advance, then for every byte left the byte arm and advance.     *)
(* The advance that follows the loop repeats one that has just returned.   *)
(* io is "done" (consume returns Ok) or the await it stops at.            *)
(***************************************************************************)
RECURSIVE consume_loop(_, _)
consume_loop(m, bytes) ==
    Only({
        IF a.next # "return" THEN [m |-> a.m, data |-> bytes, io |-> a.next]
        ELSE IF bytes = <<>> THEN [m |-> a.m, data |-> <<>>, io |-> "done"]
        ELSE LET byte == Head(bytes)
                 rest == Tail(bytes)
             IN IF a.m.state = WaitForHandshake
                THEN Only({
                         IF h.write
                         THEN [m |-> h.m, data |-> rest, io |-> "handshake_response"]
                         ELSE consume_loop(h.m, rest)
                         : h \in {step_handshake(a.m, byte)}})
                ELSE IF a.m.state = WaitForMessage
                THEN Only({consume_loop(f, rest) : f \in {push_frame_byte(a.m, byte)}})
                ELSE consume_loop(a.m, rest)
        : a \in {advance(m)}})

\* The machine after the await it stopped at completed with Ok.
resume(m, io) ==
    CASE io = "handshake_response" -> after_handshake_response(m)
      [] io = "flush_response" -> after_flush_response(m)
      [] io = "flush_error" -> after_flush_error(m)

\* The packets the await writes.
packets_of(m, io) ==
    CASE io = "handshake_response" -> <<HANDSHAKE_RESPONSE>>
      [] io \in {"flush_response", "flush_error"} -> framed_packets(m.response_buf)
      [] OTHER -> <<>>

\* An entry point from where it stopped (r, as consume_loop gives it) to its
\* return, every write returning Ok and the I2C bus giving outcome: the machine
\* it leaves and the packets it wrote after log.
RECURSIVE run_to_return(_, _, _)
run_to_return(r, log, outcome) ==
    IF r.io = "done" THEN [m |-> r.m, sent |-> log]
    ELSE IF r.io = "handler"
    THEN run_to_return(consume_loop(after_handler(r.m, outcome), r.data), log, outcome)
    ELSE run_to_return(consume_loop(resume(r.m, r.io), r.data),
                       log \o packets_of(r.m, r.io), outcome)

\* consume that starts every call with empty handshake and frame buffers.
consume_forgets_partial(m, bytes, outcome) ==
    run_to_return(consume_loop([m EXCEPT !.handshake_buf = <<>>, !.frame_buf = <<>>],
                               bytes), <<>>, outcome)

\* One whole call of consume.
consume(m, bytes, outcome) == run_to_return(consume_loop(m, bytes), <<>>, outcome)

\* handle_handshake_timeout that leaves the handshake buffer as it is.
handle_handshake_timeout_keeps_line(m) ==
    enter_error(
        schedule_handshake_deadline(
            [m EXCEPT !.frame_buf = <<>>, !.handshake_complete = FALSE]),
        "Timeout")

handle_handshake_timeout(m) ==
    enter_error(
        schedule_handshake_deadline(
            [m EXCEPT !.handshake_buf = <<>>,
                      !.frame_buf = <<>>,
                      !.handshake_complete = FALSE]),
        "Timeout")

handle_buffer_overflow(m) ==
    enter_error([m EXCEPT !.frame_buf = <<>>], "InvalidChecksum")

(***************************************************************************)
(* The host: what it puts on the wire                                      *)
(***************************************************************************)
Frame(payload) == encode_varint(Len(payload)) \o payload

HandshakeLine == HANDSHAKE_COMMAND \o HANDSHAKE_DELIMITER
\* "siterm?\n"
LowercaseLine == <<115, 105, 116, 101, 114, 109, 63>> \o HANDSHAKE_DELIMITER
\* "XSiTerm?\n" and "SiTerm?X\n"
PrefixedLine == <<88>> \o HandshakeLine
SuffixedLine == HANDSHAKE_COMMAND \o <<88>> \o HANDSHAKE_DELIMITER
\* More bytes than the handshake buffer holds, with no delimiter among them.
JunkBytes == [i \in 1..(HANDSHAKE_BUFFER_SIZE + 1) |-> 88]
\* One line: the phrase after more bytes than the handshake buffer holds.
OverlongLine == JunkBytes \o HandshakeLine
\* EchoWrite("hi")
EchoFrame == Frame(<<METHOD_ECHO, OPERATION_WRITE, 104, 105>>)
\* I2cRead { address: 0x50, register: 1, length: 1 }
I2cReadFrame == Frame(<<METHOD_I2C, OPERATION_READ, 80, 1, 1>>)
UnknownFrame == Frame(<<255, 1>>)
EmptyFrame == Frame(<<>>)
\* A whole frame whose payload does not fit the command buffer.
OversizeFrame == Frame(Filler(MAX_COMMAND_SIZE + 1))
\* Five varint bytes of which the last carries more than 4 bits.
BadVarintBytes == <<128, 128, 128, 128, 16>>
\* A length prefix of 127 and as many bytes as the frame buffer holds.
FloodBytes == Filler(FRAME_BUFFER_SIZE + 1)

\* What the host sends at a time, a line, a frame, or two of them back to
\* back: before it has the handshake response, handshake lines, junk and a
\* frame sent too early; after it, frames and a repeated handshake line.
HostItems(handshake_complete) ==
    IF ~handshake_complete
    THEN {HandshakeLine, LowercaseLine, PrefixedLine, SuffixedLine,
          HANDSHAKE_DELIMITER, JunkBytes, OverlongLine, EchoFrame,
          HandshakeLine \o EchoFrame}
    ELSE {EchoFrame, I2cReadFrame, UnknownFrame, EmptyFrame, OversizeFrame,
          BadVarintBytes, FloodBytes, HandshakeLine,
          EchoFrame \o UnknownFrame, BadVarintBytes \o I2cReadFrame,
          OversizeFrame \o UnknownFrame, FloodBytes \o EchoFrame}

AllHostItems == HostItems(FALSE) \cup HostItems(TRUE)

\* How many items the host sends, how many receive overflows the transport
\* reports and how many writes fail.
MaxSends == 2
MaxOverflows == 1
MaxWriteFails == 1

WriteErrors == {"BufferOverflow", "Disabled"}

(***************************************************************************)
(* State                                                                   *)
(***************************************************************************)
VARIABLES
    sm,      \* the StateMachine struct
    wire,    \* bytes the host sent that no read_packet has returned yet
    data,    \* consume: the bytes of its argument the byte loop has yet to take
    pc,      \* "idle", or the await the running entry point is stopped at
    out,     \* the packets the await has yet to write
    sent,    \* the packets written since the running entry point was called
    call,    \* the entry point called last
    result,  \* what it returned: "Ok", a write error, "Pending" while it runs
    sends,   \* how many items the host has sent
    faults   \* how many receive overflows and how many failed writes there were

vars == <<sm, wire, data, pc, out, sent, call, result, sends, faults>>

Init ==
    /\ sm = new
    /\ wire = <<>>
    /\ data = <<>>
    /\ pc = "idle"
    /\ out = <<>>
    /\ sent = <<>>
    /\ call = "new"
    /\ result = "Ok"
    /\ sends = 0
    /\ faults = [overflows |-> 0, write_fails |-> 0]

\* The entry point runs on from machine m with bytes left, to its next await
\* or to its return.
Continue(m, bytes) ==
    \E r \in {consume_loop(m, bytes)} :
        /\ sm' = r.m
        /\ data' = r.data
        /\ pc' = IF r.io = "done" THEN "idle" ELSE r.io
        /\ out' = packets_of(r.m, r.io)
        /\ result' = IF r.io = "done" THEN "Ok" ELSE "Pending"

\* The driver may call the machine: no call is running and the endpoint is up.
DriverReady == pc = "idle" /\ result # "Disabled"

\* The host sends its next item once the firmware has read the last one.
HostSend(item) ==
    /\ DriverReady
    /\ wire = <<>>
    /\ sends < MaxSends
    /\ item \in HostItems(sm.handshake_complete)
    /\ wire' = item
    /\ sends' = sends + 1
    /\ UNCHANGED <<sm, data, pc, out, sent, call, result, faults>>

\* read_packet returned n bytes (none for a zero-length packet) and the driver
\* hands them to consume.
CallConsume(n) ==
    /\ DriverReady
    /\ n \in 0..Min(Len(wire), READ_BUFFER_SIZE)
    /\ wire' = SubSeq(wire, n + 1, Len(wire))
    /\ call' = "consume"
    /\ sent' = <<>>
    /\ Continue(sm, SubSeq(wire, 1, n))
    /\ UNCHANGED <<sends, faults>>

\* The handshake deadline elapsed before a read completed.
CallTimeout ==
    /\ DriverReady
    /\ handshake_timeout_remaining(sm) = 0
    /\ call' = "handle_handshake_timeout"
    /\ sent' = <<>>
    /\ Continue(handle_handshake_timeout(sm), <<>>)
    /\ UNCHANGED <<wire, sends, faults>>

\* read_packet returned BufferOverflow.
CallOverflow ==
    /\ DriverReady
    /\ faults.overflows < MaxOverflows
    /\ faults' = [faults EXCEPT !.overflows = @ + 1]
    /\ call' = "handle_buffer_overflow"
    /\ sent' = <<>>
    /\ Continue(handle_buffer_overflow(sm), <<>>)
    /\ UNCHANGED <<wire, sends>>

\* A new physical connection: what was on the wire is gone.
CallReset ==
    /\ pc = "idle"
    /\ sm' = reset(sm)
    /\ call' = "reset"
    /\ result' = "Ok"
    /\ sent' = <<>>
    /\ wire' = <<>>
    /\ UNCHANGED <<data, pc, out, sends, faults>>

\* write_packet_with_retry returned Ok for the next packet.
WriteOk ==
    /\ pc \in {"handshake_response", "flush_response", "flush_error"}
    /\ sent' = Append(sent, Head(out))
    /\ IF Len(out) > 1
       THEN /\ out' = Tail(out)
            /\ UNCHANGED <<sm, data, pc, result>>
       ELSE Continue(resume(sm, pc), data)
    /\ UNCHANGED <<wire, call, sends, faults>>

\* write_packet_with_retry returned an error: the entry point returns it and
\* the rest of its argument is dropped.
WriteFail(e) ==
    /\ pc \in {"handshake_response", "flush_response", "flush_error"}
    /\ faults.write_fails < MaxWriteFails
    /\ faults' = [faults EXCEPT !.write_fails = @ + 1]
    /\ pc' = "idle"
    /\ result' = e
    /\ data' = <<>>
    /\ out' = <<>>
    /\ UNCHANGED <<sm, wire, sent, call, sends>>

\* The awaited peripheral handler returned.
HandlerDone(outcome) ==
    /\ pc = "handler"
    /\ Continue(after_handler(sm, outcome), data)
    /\ UNCHANGED <<wire, sent, call, sends, faults>>

\* Time passes until an armed deadline has elapsed: no time is left until it.
\* That is long against a transfer: what the host sent has been read.
Elapse ==
    /\ wire = <<>>
    /\ sm.handshake_deadline # NONE
    /\ sm.handshake_deadline > 0
    /\ sm' = [sm EXCEPT !.handshake_deadline = 0]
    /\ UNCHANGED <<wire, data, pc, out, sent, call, result, sends, faults>>

Next ==
    \/ \E item \in AllHostItems : HostSend(item)
    \/ \E n \in 0..READ_BUFFER_SIZE : CallConsume(n)
    \/ CallTimeout
    \/ CallOverflow
    \/ CallReset
    \/ WriteOk
    \/ \E e \in WriteErrors : WriteFail(e)
    \/ \E o \in I2cOutcomes : HandlerDone(o)
    \/ Elapse

Spec == Init /\ [][Next]_vars

(***************************************************************************)
(* The same machine with a host that sends whole lines and frames which    *)
(* the driver reads a packet at a time, under the conditions of progress:  *)
(* the driver keeps calling the machine (a read that returns no byte is a  *)
(* call of consume too), a write that is tried again and again succeeds,   *)
(* and the awaited handler returns.                                        *)
(***************************************************************************)
LiveItems ==
    {HandshakeLine, LowercaseLine, JunkBytes, EchoFrame, I2cReadFrame,
     UnknownFrame, BadVarintBytes, FloodBytes}

\* read_packet returned the next packet, or no byte when there is none.
ReadPacket == CallConsume(Min(Len(wire), READ_BUFFER_SIZE))

NextLive ==
    \/ \E item \in LiveItems : HostSend(item)
    \/ ReadPacket
    \/ CallTimeout
    \/ CallOverflow
    \/ CallReset
    \/ WriteOk
    \/ \E e \in WriteErrors : WriteFail(e)
    \/ \E o \in I2cOutcomes : HandlerDone(o)
    \/ Elapse

SpecLive ==
    /\ Init
    /\ [][NextLive]_vars
    /\ WF_vars(ReadPacket)
    /\ SF_vars(WriteOk)
    /\ WF_vars(\E o \in I2cOutcomes : HandlerDone(o))

(***************************************************************************)
(* take_ready_frame and drop_prefix as functions of the frame buffer: the  *)
(* machine waits for a message with a frame buffer that holds a frame,     *)
(* whole, cut short or bad, and bytes after it; wire keeps what the frame  *)
(* buffer held.                                                            *)
(***************************************************************************)
FramePayloads ==
    {<<>>, <<7>>, <<METHOD_ECHO, OPERATION_WRITE, 104, 105>>,
     <<METHOD_I2C, OPERATION_READ, 80, 1, 1>>, Filler(MAX_COMMAND_SIZE)}

FrameTails == {<<>>, <<5>>, <<1, 9>>, <<130>>, EchoFrame, OversizeFrame, BadVarintBytes}

\* What cannot be decoded whatever follows it.
BadFrames == {OversizeFrame, BadVarintBytes, <<255, 255, 255, 255, 255, 1>>}

\* Frames cut short: all but the last byte of a frame, and a length prefix
\* that does not end.
CutFrames ==
    {SubSeq(Frame(p), 1, Len(Frame(p)) - 1) : p \in FramePayloads}
    \cup {<<128>>, <<128, 128, 128, 128>>}

FrameInputs ==
    {f \in {h \o t : h \in {Frame(p) : p \in FramePayloads} \cup BadFrames,
                      t \in FrameTails} \cup CutFrames :
        Len(f) <= FRAME_BUFFER_SIZE}

InitFrame ==
    /\ \E f \in FrameInputs, c \in {<<>>, <<9, 9>>} :
          /\ sm = [new EXCEPT !.state = WaitForMessage,
                              !.handshake_complete = TRUE,
                              !.frame_buf = f,
                              !.command_buf = c]
          /\ wire = f
    /\ data = <<>>
    /\ pc = "idle"
    /\ out = <<>>
    /\ sent = <<>>
    /\ call = "new"
    /\ result = "Ok"
    /\ sends = 0
    /\ faults = [overflows |-> 0, write_fails |-> 0]

\* advance, the WaitForMessage arm once.
TakeReadyFrame ==
    /\ call = "new"
    /\ sm.state = WaitForMessage
    /\ sm' = arm_WaitForMessage(sm).m
    /\ call' = "take_ready_frame"
    /\ UNCHANGED <<wire, data, pc, out, sent, result, sends, faults>>

DropPrefix(count) ==
    /\ call = "new"
    /\ sm' = [sm EXCEPT !.frame_buf = drop_prefix(sm.frame_buf, count)]
    /\ call' = "drop_prefix"
    /\ UNCHANGED <<wire, data, pc, out, sent, result, sends, faults>>

NextFrame ==
    \/ TakeReadyFrame
    \/ \E count \in 0..(FRAME_BUFFER_SIZE + 1) : DropPrefix(count)

SpecFrame == InitFrame /\ [][NextFrame]_vars

(***************************************************************************)
(* The framing codec as a pair of functions.  data is the payload, wire    *)
(* the bytes encode_into wrote, result what the last function returned;    *)
(* after take_from_bytes sent holds the payload of the frame, out what     *)
(* follows the frame and sends the count of bytes the frame took.          *)
(***************************************************************************)
\* The destination of the host (a Vec that grows) holds any frame.
HOST_FRAME_SIZE == 1024

CodecLengths == 0..(ENCODED_FRAME_BUFFER_SIZE + 1) \cup {127, 128, 129, 300}

\* Payloads of every length, of bytes that are and are not what ends a
\* length prefix.
CodecPayloads ==
    UNION {{[i \in 1..n |-> 0], [i \in 1..n |-> 128 + (i % 128)],
            [i \in 1..n |-> (i * 37) % 256]} : n \in CodecLengths}

InitCodec ==
    /\ data \in CodecPayloads
    /\ sm = new
    /\ wire = <<>>
    /\ pc = "idle"
    /\ out = <<>>
    /\ sent = <<>>
    /\ call = "new"
    /\ result = "Ok"
    /\ sends = 0
    /\ faults = [overflows |-> 0, write_fails |-> 0]

EncodeFrame(size) ==
    /\ call = "new"
    /\ \E r \in {encode_into(data, size)} :
          /\ wire' = r.bytes
          /\ result' = r.tag
    /\ call' = "encode_into"
    /\ UNCHANGED <<sm, data, pc, out, sent, sends, faults>>

DecodeFrame ==
    /\ call = "encode_into"
    /\ result = "Ok"
    /\ \E r \in {take_from_bytes(wire)} :
          /\ result' = r.tag
          /\ sent' = <<r.payload>>
          /\ out' = <<r.remaining>>
          /\ sends' = Len(wire) - Len(r.remaining)
    /\ call' = "take_from_bytes"
    /\ UNCHANGED <<sm, wire, data, pc, faults>>

NextCodec ==
    \/ \E size \in {ENCODED_FRAME_BUFFER_SIZE, HOST_FRAME_SIZE} : EncodeFrame(size)
    \/ DecodeFrame

SpecCodec == InitCodec /\ [][NextCodec]_vars

(***************************************************************************)
(* One byte stream fed to the machine after reset in calls of consume of   *)
(* any sizes up to the read buffer of the driver, every write succeeding   *)
(* and no timeout firing.  data is the                                     *)
(* whole stream, wire what of it is yet to be fed, sent every packet       *)
(* written since the reset, and result what the I2C bus gives in this run. *)
(***************************************************************************)
ChunkStreams ==
    {HandshakeLine \o EchoFrame \o EchoFrame,
     PrefixedLine \o HandshakeLine \o I2cReadFrame \o UnknownFrame,
     OverlongLine \o EmptyFrame \o I2cReadFrame,
     EchoFrame \o LowercaseLine \o HandshakeLine \o BadVarintBytes \o EchoFrame,
     HandshakeLine \o OversizeFrame \o EchoFrame,
     HandshakeLine \o FloodBytes \o EchoFrame \o HandshakeLine}

ChunkOutcome(r) ==
    CHOOSE o \in I2cOutcomes : IF r = "Ok" THEN o.res = "Ok" ELSE o.err = r

InitChunk ==
    /\ data \in ChunkStreams
    /\ wire = data
    /\ sm = reset(new)
    /\ pc = "idle"
    /\ out = <<>>
    /\ sent = <<>>
    /\ call = "reset"
    /\ result \in {"Ok", "ExecutionFailed"}
    /\ sends = 0
    /\ faults = [overflows |-> 0, write_fails |-> 0]

\* consume is called with the next n bytes of the stream and returns Ok.
ChunkConsume(n) ==
    /\ n \in 0..Min(Len(wire), READ_BUFFER_SIZE)
    /\ \E r \in {consume(sm, SubSeq(wire, 1, n), ChunkOutcome(result))} :
          /\ sm' = r.m
          /\ sent' = sent \o r.sent
    /\ wire' = SubSeq(wire, n + 1, Len(wire))
    /\ call' = "consume"
    /\ UNCHANGED <<data, pc, out, result, sends, faults>>

NextChunk == \E n \in 0..READ_BUFFER_SIZE : ChunkConsume(n)

SpecChunk == InitChunk /\ [][NextChunk]_vars

(***************************************************************************)
(* The machine after the handshake, waiting for a message, and one command *)
(* frame on the wire, which the driver reads in packets of any sizes with  *)
(* every write succeeding: echo commands of every payload length that a    *)
(* frame for the command buffer can carry.                                 *)
(***************************************************************************)
MachineAfterHandshake ==
    [new EXCEPT !.state = WaitForMessage, !.handshake_complete = TRUE]

EchoCommand(p) == <<METHOD_ECHO, OPERATION_WRITE>> \o p

EchoPayloads ==
    UNION {{[i \in 1..n |-> 104], [i \in 1..n |-> (i * 37) % 256]} :
              n \in 0..(MAX_COMMAND_SIZE - 2)}

InitEcho ==
    /\ wire \in {Frame(EchoCommand(p)) : p \in EchoPayloads}
    /\ sm = MachineAfterHandshake
    /\ data = <<>>
    /\ pc = "idle"
    /\ out = <<>>
    /\ sent = <<>>
    /\ call = "new"
    /\ result = "Ok"
    /\ sends = 0
    /\ faults = [overflows |-> 0, write_fails |-> 0]

NextEcho ==
    \/ \E n \in 0..READ_BUFFER_SIZE : CallConsume(n)
    \/ WriteOk

SpecEcho == InitEcho /\ [][NextEcho]_vars

(***************************************************************************)
(* The machine after the handshake and one frame on the wire whose payload *)
(* is a command: every method byte and operation byte, known or not, with  *)
(* no, two or three operand bytes, and the payloads of one byte.           *)
(***************************************************************************)
MethodBytes == {0, METHOD_ECHO, METHOD_I2C, METHOD_SPI, METHOD_UART, METHOD_PWM, 6, 255}

OperationBytes == {0, OPERATION_READ, OPERATION_WRITE, 3, 255}

OperandBytes == {<<>>, <<80, 1>>, <<80, 1, 1>>}

CommandPayloads ==
    {<<mb>> : mb \in MethodBytes}
    \cup {<<mb, ob>> \o operands :
              mb \in MethodBytes, ob \in OperationBytes, operands \in OperandBytes}

InitCommand ==
    /\ wire \in {Frame(c) : c \in CommandPayloads}
    /\ sm = MachineAfterHandshake
    /\ data = <<>>
    /\ pc = "idle"
    /\ out = <<>>
    /\ sent = <<>>
    /\ call = "new"
    /\ result = "Ok"
    /\ sends = 0
    /\ faults = [overflows |-> 0, write_fails |-> 0]

NextCommand ==
    \/ \E n \in 0..READ_BUFFER_SIZE : CallConsume(n)
    \/ WriteOk
    \/ \E o \in I2cOutcomes : HandlerDone(o)

SpecCommand == InitCommand /\ [][NextCommand]_vars

(***************************************************************************)
(* The host text encoder (host/mod.rs, host/i2c.rs).  A command line is    *)
(* its whitespace-separated parts: the method keyword, the operation       *)
(* keyword ("" when the line has none), the numeric tokens that follow,    *)
(* and for echo the text after the keyword as bytes.  A numeric token is   *)
(* its radix prefix and its digits, each digit by its value.               *)
(***************************************************************************)
\* The outcome of an encoder: Ok or the error with the index it carries, and
\* the output vector as the call leaves it (on Ok its length is returned).
\* EncodeErr is an error returned before the output is touched.
EncodeFailure(e, index, output) == [tag |-> e, index |-> index, output |-> output]

EncodeErr(e) == EncodeFailure(e, NONE, <<>>)

\* Method::try_from(&str), Operation::try_from(&str): eq_ignore_ascii_case.
Method_try_from(keyword) ==
    CASE keyword \in {"echo", "ECHO", "Echo"} -> METHOD_ECHO
      [] keyword \in {"i2c", "I2C", "I2c"} -> METHOD_I2C
      [] keyword \in {"spi", "SPI"} -> METHOD_SPI
      [] keyword \in {"uart", "UART"} -> METHOD_UART
      [] keyword \in {"pwm", "PWM"} -> METHOD_PWM
      [] OTHER -> NONE

Operation_try_from(keyword) ==
    CASE keyword \in {"r", "R", "read", "READ", "Read"} -> OPERATION_READ
      [] keyword \in {"w", "W", "write", "WRITE", "Write"} -> OPERATION_WRITE
      [] OTHER -> NONE

\* u8::from_str_radix: the value of the digits, None for a digit outside the
\* radix or a value that does not fit a byte.
RECURSIVE from_str_radix(_, _, _)
from_str_radix(digits, radix, acc) ==
    IF digits = <<>> THEN acc
    ELSE IF Head(digits) >= radix THEN NONE
    ELSE IF acc * radix + Head(digits) > 255 THEN NONE
    ELSE from_str_radix(Tail(digits), radix, acc * radix + Head(digits))

\* host/mod.rs parse_u8: NONE stands for InvalidArgument.
parse_u8(token) ==
    LET radix == CASE token.prefix = "0x" -> 16
                   [] token.prefix = "0b" -> 2
                   [] OTHER -> 10
    IN IF token.digits = <<>> THEN NONE
       ELSE from_str_radix(token.digits, radix, 0)

ParseAll(tokens) == [i \in 1..Len(tokens) |-> parse_u8(tokens[i])]

\* str::trim on the bytes of the echo text (space is the only whitespace in
\* the texts drawn).
RECURSIVE trim_start(_)
trim_start(text) ==
    IF text # <<>> /\ Head(text) = 32 THEN trim_start(Tail(text)) ELSE text

RECURSIVE trim_end(_)
trim_end(text) ==
    IF text # <<>> /\ text[Len(text)] = 32
    THEN trim_end(SubSeq(text, 1, Len(text) - 1))
    ELSE text

trim(text) == trim_end(trim_start(text))

encode_echo(remainder, output) ==
    [tag |-> "Ok", index |-> NONE, output |-> output \o remainder]

\* The place in args of the first token that parse_u8 rejects.
FirstInvalid(args) ==
    CHOOSE i \in 1..Len(args) :
        /\ parse_u8(args[i]) = NONE
        /\ \A j \in 1..(i - 1) : parse_u8(args[j]) # NONE

\* An encoder of i2c read that counts the missing argument from one.
encode_i2c_read_one_based(args, output) ==
    IF Len(args) < 3 THEN EncodeFailure("MissingArgument", Len(args) + 1, output)
    ELSE IF Len(args) > 3 THEN EncodeFailure("UnexpectedArgument", 3, output)
    ELSE IF \E i \in 1..3 : parse_u8(args[i]) = NONE
    THEN EncodeFailure("InvalidArgument", FirstInvalid(args) - 1, output)
    ELSE [tag |-> "Ok", index |-> NONE, output |-> output \o ParseAll(args)]

encode_i2c_read(args, output) ==
    IF Len(args) < 3 THEN EncodeFailure("MissingArgument", Len(args), output)
    ELSE IF Len(args) > 3 THEN EncodeFailure("UnexpectedArgument", 3, output)
    ELSE IF \E i \in 1..3 : parse_u8(args[i]) = NONE
    THEN EncodeFailure("InvalidArgument", FirstInvalid(args) - 1, output)
    ELSE [tag |-> "Ok", index |-> NONE, output |-> output \o ParseAll(args)]

\* An encoder of i2c write that puts no count byte before the data bytes.
encode_i2c_write_without_count(args, output) ==
    IF Len(args) < 3 THEN EncodeFailure("MissingArgument", Len(args), output)
    ELSE IF \E i \in 1..Len(args) : parse_u8(args[i]) = NONE
    THEN EncodeFailure("InvalidArgument", FirstInvalid(args) - 1, output)
    ELSE [tag |-> "Ok", index |-> NONE, output |-> output \o ParseAll(args)]

\* The address and the register are parsed before anything is pushed; the
\* data bytes are pushed as they are parsed, after the count.
encode_i2c_write(args, output) ==
    IF Len(args) < 3 THEN EncodeFailure("MissingArgument", Len(args), output)
    ELSE IF Len(args) - 2 > 255 THEN EncodeFailure("InvalidArgument", 2, output)
    ELSE IF \E i \in 1..Len(args) : parse_u8(args[i]) = NONE
    THEN LET bad == FirstInvalid(args)
         IN EncodeFailure("InvalidArgument", bad - 1,
                IF bad <= 2 THEN output
                ELSE output \o <<parse_u8(args[1]), parse_u8(args[2]), Len(args) - 2>>
                     \o ParseAll(SubSeq(args, 3, bad - 1)))
    ELSE [tag |-> "Ok", index |-> NONE,
          output |-> output \o <<parse_u8(args[1]), parse_u8(args[2]), Len(args) - 2>>
                     \o ParseAll(SubSeq(args, 3, Len(args)))]

\* encode_command_into with an empty vector for its output.
encode_command_into(line) ==
    IF line.method = "" THEN EncodeErr("Empty")
    ELSE IF Method_try_from(line.method) = NONE THEN EncodeErr("UnknownMethod")
    ELSE LET method == Method_try_from(line.method)
             operation == IF method = METHOD_ECHO THEN OPERATION_WRITE
                          ELSE Operation_try_from(line.operation)
         IN IF method # METHOD_ECHO /\ line.operation = ""
            THEN EncodeErr("MissingOperation")
            ELSE IF operation = NONE THEN EncodeErr("UnknownOperation")
            ELSE IF ~(\/ <<method, operation>> \in COMMAND_DICTIONARY
                      \/ method = METHOD_I2C)
            THEN EncodeErr("UnsupportedOperation")
            ELSE IF method = METHOD_ECHO
            THEN encode_echo(trim(line.text), <<method, operation>>)
            ELSE IF operation = OPERATION_READ
            THEN encode_i2c_read(line.args, <<method, operation>>)
            ELSE encode_i2c_write(line.args, <<method, operation>>)

\* encode_command: the bytes on Ok, the error and no bytes otherwise.
encode_command(line) ==
    LET r == encode_command_into(line)
    IN [tag |-> r.tag, index |-> r.index,
        bytes |-> IF r.tag = "Ok" THEN r.output ELSE <<>>]

(***************************************************************************)
(* The two codecs, one after the other: data is the command line, wire the *)
(* bytes of encode_command, result its outcome, and out holds what the     *)
(* last of the two calls returned; sent holds the output vector as         *)
(* encode_command_into left it.                                            *)
(***************************************************************************)
U8_MAX == 255

Hex(digits) == [prefix |-> "0x", digits |-> digits]
Bin(digits) == [prefix |-> "0b", digits |-> digits]
Dec(digits) == [prefix |-> "", digits |-> digits]

NumericTokens ==
    {Hex(<<8, 0>>), Hex(<<1, 1>>), Hex(<<15, 15>>), Hex(<<1, 0, 0>>), Hex(<<>>),
     Bin(<<1, 0, 1>>), Bin(<<2>>), Dec(<<0>>), Dec(<<2, 5, 5>>), Dec(<<2, 5, 6>>),
     Dec(<<10>>)}

ArgumentLists ==
    {<<>>}
    \cup {<<a>> : a \in {Hex(<<8, 0>>)}}
    \cup {<<a, b>> : a \in {Hex(<<8, 0>>), Dec(<<2, 5, 5>>)}, b \in {Hex(<<1, 1>>)}}
    \cup {<<a, b, c>> : a \in {Hex(<<8, 0>>), Bin(<<1, 0, 1>>)},
                         b \in {Hex(<<1, 1>>), Dec(<<0>>)}, c \in NumericTokens}
    \cup {<<Hex(<<8, 0>>), Hex(<<1, 1>>), Dec(<<1>>), c>> : c \in NumericTokens}
    \cup {<<Hex(<<8, 0>>), Hex(<<1, 1>>)>> \o [i \in 1..n |-> Dec(<<i % 10>>)] :
              n \in {3, U8_MAX - 1, U8_MAX, U8_MAX + 1}}

EchoTexts ==
    {<<>>, <<104, 105>>, <<32, 104, 105, 32>>, <<104, 32, 32, 105>>, <<1, 2, 0>>}

CommandLines ==
    {[method |-> k, operation |-> "", args |-> <<>>, text |-> t] :
        k \in {"echo", "ECHO"}, t \in EchoTexts}
    \cup {[method |-> k, operation |-> o, args |-> a, text |-> <<>>] :
              k \in {"i2c", "I2C"}, o \in {"read", "r", "write", "W"},
              a \in ArgumentLists}
    \cup {[method |-> k, operation |-> o, args |-> <<>>, text |-> <<>>] :
              k \in {"", "foo", "spi", "uart", "pwm", "i2c"},
              o \in {"", "read", "write", "erase"}}

InitHost ==
    /\ data \in CommandLines
    /\ wire = <<>>
    /\ sm = new
    /\ pc = "idle"
    /\ out = <<>>
    /\ sent = <<>>
    /\ call = "new"
    /\ result = "Ok"
    /\ sends = 0
    /\ faults = [overflows |-> 0, write_fails |-> 0]

EncodeCommand ==
    /\ call = "new"
    /\ \E e \in {encode_command(data)} :
          /\ wire' = e.bytes
          /\ result' = e.tag
          /\ out' = <<e>>
    /\ sent' = <<encode_command_into(data).output>>
    /\ call' = "encode_command"
    /\ UNCHANGED <<sm, data, pc, sends, faults>>

DecodeCommand ==
    /\ call = "encode_command"
    /\ result = "Ok"
    /\ out' = <<decode_command(wire)>>
    /\ call' = "decode_command"
    /\ UNCHANGED <<sm, wire, data, pc, sent, result, sends, faults>>

NextHost == EncodeCommand \/ DecodeCommand

SpecHost == InitHost /\ [][NextHost]_vars

(***************************************************************************)
(* write_packet_with_retry (usb_transport.rs) on its own.  Times are in    *)
(* milliseconds from the call, so the deadline is WRITE_RETRY_TIMEOUT_MS.  *)
(* sent is the log of the awaits that have returned, each with the time it *)
(* took and, for a write, its outcome; pc is the await the function stands *)
(* at ("idle" when it has returned) and result what it returned.           *)
(***************************************************************************)
WRITE_RETRY_TIMEOUT_MS == 30

RETRY_INTERVAL_MS == 10

\* A write that fails with a full buffer gives up at once.
after_write_packet_no_retry(outcome, now, deadline) ==
    [next |-> "return", result |-> outcome]

\* The match on the outcome of class.write_packet.
after_write_packet(outcome, now, deadline) ==
    IF outcome = "Ok" THEN [next |-> "return", result |-> "Ok"]
    ELSE IF outcome = "BufferOverflow"
    THEN IF now >= deadline
         THEN [next |-> "return", result |-> "BufferOverflow"]
         ELSE [next |-> "timer", result |-> "Pending"]
    ELSE [next |-> "return", result |-> outcome]

RECURSIVE Elapsed(_)
Elapsed(log) == IF log = <<>> THEN 0 ELSE Head(log).took + Elapsed(Tail(log))

\* How long a write may take before it returns, and how long the timer.
WriteDurations == {0, 1, RETRY_INTERVAL_MS}

TimerDurations == {RETRY_INTERVAL_MS, RETRY_INTERVAL_MS + 1}

InitRetry ==
    /\ pc = "write_packet"
    /\ sent = <<>>
    /\ result = "Pending"
    /\ call = "write_packet_with_retry"
    /\ sm = new
    /\ wire = <<>>
    /\ data \in {<<>>, <<1>>}
    /\ out = <<>>
    /\ sends = 0
    /\ faults = [overflows |-> 0, write_fails |-> 0]

\* class.write_packet(data) returns.
WritePacketReturns(outcome, took) ==
    /\ pc = "write_packet"
    /\ sent' = Append(sent, [await |-> "write_packet", took |-> took, outcome |-> outcome])
    /\ \E r \in {after_write_packet(outcome, Elapsed(sent) + took, WRITE_RETRY_TIMEOUT_MS)} :
          /\ pc' = IF r.next = "return" THEN "idle" ELSE r.next
          /\ result' = r.result
    /\ UNCHANGED <<sm, wire, data, out, call, sends, faults>>

\* Timer::after_millis(10) returns.
TimerReturns(took) ==
    /\ pc = "timer"
    /\ sent' = Append(sent, [await |-> "timer", took |-> took, outcome |-> "Ok"])
    /\ pc' = "write_packet"
    /\ UNCHANGED <<sm, wire, data, out, call, result, sends, faults>>

NextRetry ==
    \/ \E outcome \in {"Ok"} \cup WriteErrors, took \in WriteDurations :
          WritePacketReturns(outcome, took)
    \/ \E took \in TimerDurations : TimerReturns(took)

SpecRetry == InitRetry /\ [][NextRetry]_vars

(***************************************************************************)
(* The two functions of the name write_packet_with_retry, that of          *)
(* usb_transport.rs and that of main.rs, under the conditions of progress: *)
(* every write attempt returns and every timer fires.  call names the      *)
(* function.  The loop of main.rs keeps no time: of it the model keeps the *)
(* number of attempts in sends, counted up to MaxAttempts.                 *)
(***************************************************************************)
MaxAttempts == 6

\* main.rs write_packet_with_retry: the match on the outcome of write_packet.
main_after_write_packet(outcome) ==
    IF outcome = "Ok" THEN [next |-> "return", result |-> "Ok"]
    ELSE IF outcome = "BufferOverflow" THEN [next |-> "timer", result |-> "Pending"]
    ELSE [next |-> "return", result |-> outcome]

InitRetryLive ==
    /\ pc = "write_packet"
    /\ sent = <<>>
    /\ result = "Pending"
    /\ call \in {"write_packet_with_retry", "main::write_packet_with_retry"}
    /\ sm = new
    /\ wire = <<>>
    /\ data \in {<<>>, <<1>>}
    /\ out = <<>>
    /\ sends = 0
    /\ faults = [overflows |-> 0, write_fails |-> 0]

\* main.rs: class.write_packet(data) returns.
MainWritePacketReturns(outcome) ==
    /\ call = "main::write_packet_with_retry"
    /\ pc = "write_packet"
    /\ sends' = Min(sends + 1, MaxAttempts)
    /\ \E r \in {main_after_write_packet(outcome)} :
          /\ pc' = IF r.next = "return" THEN "idle" ELSE r.next
          /\ result' = r.result
    /\ UNCHANGED <<sm, wire, data, out, sent, call, faults>>

\* main.rs: Timer::after_millis(10) returns.
MainTimerReturns ==
    /\ call = "main::write_packet_with_retry"
    /\ pc = "timer"
    /\ pc' = "write_packet"
    /\ UNCHANGED <<sm, wire, data, out, sent, call, result, sends, faults>>

NextRetryLive ==
    \/ /\ call = "write_packet_with_retry"
       /\ \E outcome \in {"Ok"} \cup WriteErrors, took \in WriteDurations :
             WritePacketReturns(outcome, took)
    \/ /\ call = "write_packet_with_retry"
       /\ \E took \in TimerDurations : TimerReturns(took)
    \/ \E outcome \in {"Ok"} \cup WriteErrors : MainWritePacketReturns(outcome)
    \/ MainTimerReturns

SpecRetryLive == InitRetryLive /\ [][NextRetryLive]_vars /\ WF_vars(NextRetryLive)

(***************************************************************************)
(* send_framed_payload alone, with the retry loop of each of its packets:  *)
(* data is its payload, out the encoded frame, sends the offset, wire the  *)
(* packets written, sent the log of the awaits, each with the offset of    *)
(* the packet it belongs to, pc "idle", "write_packet" or "timer".         *)
(***************************************************************************)
SendPayloads ==
    {[i \in 1..n |-> i] :
        n \in {0, 1, READ_BUFFER_SIZE - 2, READ_BUFFER_SIZE - 1, READ_BUFFER_SIZE,
               2 * READ_BUFFER_SIZE - 1, MAX_COMMAND_SIZE,
               ENCODED_FRAME_BUFFER_SIZE - 1, ENCODED_FRAME_BUFFER_SIZE}}

RECURSIVE OfPacket(_, _)
OfPacket(log, offset) ==
    IF log = <<>> THEN <<>>
    ELSE IF Head(log).offset = offset THEN <<Head(log)>> \o OfPacket(Tail(log), offset)
    ELSE OfPacket(Tail(log), offset)

\* A deadline taken once for the whole frame.
retry_clock_of_frame(log, offset) == Elapsed(log)

\* Instant::now() minus the instant write_packet_with_retry was called for
\* the packet at offset: its deadline is WRITE_RETRY_TIMEOUT_MS after that.
retry_clock(log, offset) == Elapsed(OfPacket(log, offset))

InitSend ==
    /\ data \in SendPayloads
    /\ call = "new"
    /\ pc = "idle"
    /\ out = <<>>
    /\ wire = <<>>
    /\ sent = <<>>
    /\ sends = 0
    /\ result = "Ok"
    /\ sm = new
    /\ faults = [overflows |-> 0, write_fails |-> 0]

\* send_framed_payload to its first write, or to its return.
CallSendFramedPayload ==
    /\ call = "new"
    /\ call' = "send_framed_payload"
    /\ \E e \in {encode_into(data, ENCODED_FRAME_BUFFER_SIZE)} :
          IF e.tag = "Err" \/ Len(e.bytes) = 0
          THEN out' = <<>> /\ pc' = "idle" /\ result' = "Ok"
          ELSE out' = e.bytes /\ pc' = "write_packet" /\ result' = "Pending"
    /\ UNCHANGED <<sm, wire, data, sent, sends, faults>>

\* class.write_packet returns for the packet at offset sends.
SendWritePacketReturns(outcome, took) ==
    /\ call = "send_framed_payload"
    /\ pc = "write_packet"
    /\ sent' = Append(sent, [await |-> "write_packet", took |-> took,
                             outcome |-> outcome, offset |-> sends])
    /\ \E end \in {Min(sends + READ_BUFFER_SIZE, Len(out))},
          r \in {after_write_packet(outcome, retry_clock(sent, sends) + took,
                                    WRITE_RETRY_TIMEOUT_MS)} :
          IF r.next = "timer"
          THEN pc' = "timer" /\ UNCHANGED <<wire, sends, result>>
          ELSE IF r.result # "Ok"
          THEN pc' = "idle" /\ result' = r.result /\ UNCHANGED <<wire, sends>>
          ELSE /\ wire' = Append(wire, SubSeq(out, sends + 1, end))
               /\ sends' = end
               /\ IF end < Len(out)
                  THEN pc' = "write_packet" /\ UNCHANGED result
                  ELSE pc' = "idle" /\ result' = "Ok"
    /\ UNCHANGED <<sm, data, out, call, faults>>

\* Timer::after_millis(10) returns.
SendTimerReturns(took) ==
    /\ call = "send_framed_payload"
    /\ pc = "timer"
    /\ sent' = Append(sent, [await |-> "timer", took |-> took,
                             outcome |-> "Ok", offset |-> sends])
    /\ pc' = "write_packet"
    /\ UNCHANGED <<sm, wire, data, out, call, result, sends, faults>>

NextSend ==
    \/ CallSendFramedPayload
    \/ \E outcome \in {"Ok"} \cup WriteErrors, took \in {0, RETRY_INTERVAL_MS} :
          SendWritePacketReturns(outcome, took)
    \/ SendTimerReturns(RETRY_INTERVAL_MS)

SpecSend == InitSend /\ [][NextSend]_vars

(***************************************************************************)
(* The status signal and the indicator task.  wire is STATUS_SIGNAL: empty *)
(* or the one pattern signalled and not yet taken; data is the pattern     *)
(* variable of drive, out what was last written to the LED, pc the await   *)
(* or the try_take drive is at, sends the number of calls of signal, sent  *)
(* the patterns overwritten in the signal before they were taken.  A       *)
(* pattern is kept with the number of the call that signalled it; the      *)
(* brightness steps of a pulse are not kept.                               *)
(***************************************************************************)
MaxSignals == 3

\* The patterns of state_pattern: by their kind and colour.
StatusPatterns ==
    {[kind |-> "Solid", colour |-> "Idle"],
     [kind |-> "Blink", colour |-> "Warning"],
     [kind |-> "Pulse", colour |-> "Communicating"],
     [kind |-> "Blink", colour |-> "Error"]}

\* Signal::signal that keeps a value not yet taken.
Signal_signal_keeps_first(slot, value) == IF slot = <<>> THEN <<value>> ELSE slot

\* embassy_sync Signal::signal: the value replaces what the signal holds.
Signal_signal(slot, value) == <<value>>

\* drive: the match on the pattern, to the first await or try_take of its arm.
arm_of(pattern) ==
    CASE pattern.kind = "Solid" -> "solid_set_colour"
      [] pattern.kind = "Blink" -> "blink_try_take_on"
      [] pattern.kind = "Pulse" -> "pulse_try_take"

\* drive: where it goes on when nothing was taken.
after_position(position) ==
    CASE position = "solid_set_colour" -> "solid_wait"
      [] position = "blink_try_take_on" -> "blink_set_on"
      [] position = "blink_set_on" -> "blink_wait_on"
      [] position = "blink_wait_on" -> "blink_try_take_off"
      [] position = "blink_try_take_off" -> "blink_set_off"
      [] position = "blink_set_off" -> "blink_wait_off"
      [] position = "blink_wait_off" -> "blink_try_take_on"
      [] position = "pulse_try_take" -> "pulse_set"
      [] position = "pulse_set" -> "pulse_wait"
      [] position = "pulse_wait" -> "pulse_try_take"

InitSignal ==
    /\ wire = <<>>
    /\ data = <<>>
    /\ out = <<>>
    /\ pc = "first_wait"
    /\ sends = 0
    /\ sent = <<>>
    /\ call = "drive"
    /\ result = "Pending"
    /\ sm = new
    /\ faults = [overflows |-> 0, write_fails |-> 0]

\* status_led::signal(pattern), called by refresh_status_led.
SignalPattern(pattern) ==
    /\ sends < MaxSignals
    /\ sends' = sends + 1
    /\ wire' = Signal_signal(wire, [pattern |-> pattern, n |-> sends + 1])
    /\ sent' = IF wire # <<>> /\ wire' # wire THEN Append(sent, wire[1]) ELSE sent
    /\ UNCHANGED <<sm, data, pc, out, call, result, faults>>

\* drive takes the pattern the signal holds and goes to its arm.
TakePattern ==
    /\ wire # <<>>
    /\ data' = wire
    /\ wire' = <<>>
    /\ pc' = arm_of(wire[1].pattern)
    /\ UNCHANGED <<sm, out, sent, call, result, sends, faults>>

\* STATUS_SIGNAL.wait() returns.
DriveWait ==
    /\ pc \in {"first_wait", "solid_wait"}
    /\ TakePattern

\* STATUS_SIGNAL.try_take().
DriveTryTake ==
    /\ pc \in {"blink_try_take_on", "blink_try_take_off", "pulse_try_take"}
    /\ IF wire # <<>> THEN TakePattern
       ELSE /\ pc' = after_position(pc)
            /\ UNCHANGED <<sm, wire, data, out, sent, call, result, sends, faults>>

\* led.set_colour or led.set_rgb returns: the LED shows the pattern.
DriveSetLed ==
    /\ pc \in {"solid_set_colour", "blink_set_on", "blink_set_off", "pulse_set"}
    /\ out' = data
    /\ pc' = after_position(pc)
    /\ UNCHANGED <<sm, wire, data, sent, call, result, sends, faults>>

\* wait_for_update: the timer fired (select returns it first even when the
\* signal holds a pattern, which stays there).
DriveTimerFired ==
    /\ pc \in {"blink_wait_on", "blink_wait_off", "pulse_wait"}
    /\ pc' = after_position(pc)
    /\ UNCHANGED <<sm, wire, data, out, sent, call, result, sends, faults>>

\* wait_for_update: the signal was ready before the timer.
DriveUpdated ==
    /\ pc \in {"blink_wait_on", "blink_wait_off", "pulse_wait"}
    /\ TakePattern

NextSignal ==
    \/ \E pattern \in StatusPatterns : SignalPattern(pattern)
    \/ DriveWait
    \/ DriveTryTake
    \/ DriveSetLed
    \/ DriveTimerFired
    \/ DriveUpdated

\* The executor runs the indicator task whenever it can go on; of the two
\* ends of the select none is starved.
SpecSignal ==
    /\ InitSignal
    /\ [][NextSignal]_vars
    /\ WF_vars(DriveWait)
    /\ WF_vars(DriveTryTake)
    /\ WF_vars(DriveSetLed)
    /\ WF_vars(DriveTimerFired)

(***************************************************************************)
(* decode_command alone: wire is its argument, out its result.             *)
(***************************************************************************)
DecodeOperands == OperandBytes \cup {<<7>>, <<7, 8>>, <<7, 8, 9>>, <<7, 8, 9, 10>>}

DecodeInputs ==
    {<<>>}
    \cup {<<mb>> : mb \in MethodBytes}
    \cup {<<mb, ob>> \o operands :
              mb \in MethodBytes, ob \in OperationBytes, operands \in DecodeOperands}

InitDecode ==
    /\ wire \in DecodeInputs
    /\ sm = new
    /\ data = <<>>
    /\ pc = "idle"
    /\ out = <<>>
    /\ sent = <<>>
    /\ call = "new"
    /\ result = "Ok"
    /\ sends = 0
    /\ faults = [overflows |-> 0, write_fails |-> 0]

CallDecodeCommand ==
    /\ call = "new"
    /\ out' = <<decode_command(wire)>>
    /\ call' = "decode_command"
    /\ UNCHANGED <<sm, wire, data, pc, sent, result, sends, faults>>

NextDecode == CallDecodeCommand

SpecDecode == InitDecode /\ [][NextDecode]_vars

(***************************************************************************)
(* The machine one step at a time: every arm of advance and every byte of  *)
(* consume's loop is a step of its own, so that each assignment to the     *)
(* state is a transition.  pc is "idle", "advance" (at the match of        *)
(* advance), "byte" (at the match of consume's loop) or the await the      *)
(* entry point is stopped at; out is <<"bytes">> while the advance that    *)
(* runs is followed by the byte loop, <<"return">> when the entry point    *)
(* returns after it; a write is one await, whatever its packets.           *)
(***************************************************************************)
AFTER_BYTES == <<"bytes">>
AFTER_RETURN == <<"return">>

InitStep == Init

BeginConsume(n) ==
    /\ DriverReady
    /\ n \in 0..Min(Len(wire), READ_BUFFER_SIZE)
    /\ wire' = SubSeq(wire, n + 1, Len(wire))
    /\ data' = SubSeq(wire, 1, n)
    /\ call' = "consume"
    /\ pc' = "advance"
    /\ out' = AFTER_BYTES
    /\ result' = "Pending"
    /\ UNCHANGED <<sm, sent, sends, faults>>

\* handle_handshake_timeout up to its call of advance.
BeginTimeout ==
    /\ DriverReady
    /\ handshake_timeout_remaining(sm) = 0
    /\ sm' = handle_handshake_timeout(sm)
    /\ call' = "handle_handshake_timeout"
    /\ pc' = "advance"
    /\ out' = AFTER_RETURN
    /\ result' = "Pending"
    /\ data' = <<>>
    /\ UNCHANGED <<wire, sent, sends, faults>>

\* handle_buffer_overflow up to its call of advance.
BeginOverflow ==
    /\ DriverReady
    /\ faults.overflows < MaxOverflows
    /\ faults' = [faults EXCEPT !.overflows = @ + 1]
    /\ sm' = handle_buffer_overflow(sm)
    /\ call' = "handle_buffer_overflow"
    /\ pc' = "advance"
    /\ out' = AFTER_RETURN
    /\ result' = "Pending"
    /\ data' = <<>>
    /\ UNCHANGED <<wire, sent, sends>>

\* One turn of the loop of advance: the arm of the state, then the loop goes
\* on, advance stops at an await, or it returns to its caller.
AdvanceArm ==
    /\ pc = "advance"
    /\ \E s \in {advance_step(sm)} :
          /\ sm' = s.m
          /\ IF s.next = "loop" THEN UNCHANGED <<pc, out, result>>
             ELSE IF s.next # "return"
             THEN pc' = s.next /\ UNCHANGED <<out, result>>
             ELSE IF out = AFTER_RETURN
             THEN pc' = "idle" /\ result' = "Ok" /\ out' = <<>>
             ELSE IF data = <<>>
             THEN pc' = "advance" /\ out' = AFTER_RETURN /\ UNCHANGED result
             ELSE pc' = "byte" /\ UNCHANGED <<out, result>>
    /\ UNCHANGED <<wire, data, sent, call, sends, faults>>

\* The match of consume's loop on one byte.
TakeByte ==
    /\ pc = "byte"
    /\ data' = Tail(data)
    /\ IF sm.state = WaitForHandshake
       THEN \E h \in {step_handshake(sm, Head(data))} :
               /\ sm' = h.m
               /\ pc' = IF h.write THEN "handshake_response" ELSE "advance"
       ELSE IF sm.state = WaitForMessage
       THEN sm' = push_frame_byte(sm, Head(data)) /\ pc' = "advance"
       ELSE sm' = sm /\ pc' = "advance"
    /\ UNCHANGED <<wire, out, sent, call, result, sends, faults>>

\* The awaited write returned Ok.
AwaitOk ==
    /\ pc \in {"handshake_response", "flush_response", "flush_error"}
    /\ sm' = resume(sm, pc)
    /\ pc' = "advance"
    /\ UNCHANGED <<wire, data, out, sent, call, result, sends, faults>>

\* The awaited write returned an error and the entry point returns it.
AwaitFail(e) ==
    /\ pc \in {"handshake_response", "flush_response", "flush_error"}
    /\ faults.write_fails < MaxWriteFails
    /\ faults' = [faults EXCEPT !.write_fails = @ + 1]
    /\ pc' = "idle"
    /\ result' = e
    /\ data' = <<>>
    /\ out' = <<>>
    /\ UNCHANGED <<sm, wire, sent, call, sends>>

\* The awaited peripheral handler returned.
AwaitHandler(outcome) ==
    /\ pc = "handler"
    /\ sm' = after_handler(sm, outcome)
    /\ pc' = "advance"
    /\ UNCHANGED <<wire, data, out, sent, call, result, sends, faults>>

NextStep ==
    \/ \E item \in AllHostItems : HostSend(item)
    \/ \E n \in 0..READ_BUFFER_SIZE : BeginConsume(n)
    \/ BeginTimeout
    \/ BeginOverflow
    \/ CallReset
    \/ AdvanceArm
    \/ TakeByte
    \/ AwaitOk
    \/ \E e \in WriteErrors : AwaitFail(e)
    \/ \E o \in I2cOutcomes : AwaitHandler(o)
    \/ Elapse

SpecStep == InitStep /\ [][NextStep]_vars

(***************************************************************************)
(* Properties                                                              *)
(***************************************************************************)
EntryPoints == {"consume", "handle_handshake_timeout", "handle_buffer_overflow"}

\* An entry point has returned Ok.
ReturnedOk == pc = "idle" /\ result = "Ok" /\ call \in EntryPoints

\* "ERR: <kind>"
ErrMessage(err) == ERR_PREFIX \o Error_as_bytes(err)

\* C1: whenever consume, handle_handshake_timeout or handle_buffer_overflow
\* has returned Ok, the state is WaitForHandshake or WaitForMessage; the
\* machine rests in another state only after a write failed.
C1_OkReturnsInWaitingState ==
    ReturnedOk => sm.state \in {WaitForHandshake, WaitForMessage}

\* consume returned Ok after it went through ParseCommand, an error state and
\* the error write.
C1_Witness ==
    /\ ReturnedOk
    /\ call = "consume"
    /\ Flatten(sent) = Frame(ErrMessage("UnknownCommand"))
    /\ sm.state = WaitForMessage

\* C3: in WaitForHandshake, when the bytes received (in the handshake buffer
\* and up to some byte of this chunk) are exactly HANDSHAKE_COMMAND and the
\* delimiter, consume writes HANDSHAKE_RESPONSE as it is, and when the write
\* has succeeded it has written it once, the handshake is complete and the
\* deadline disarmed; with no byte left in the chunk the frame buffer is empty
\* and consume returns Ok in WaitForMessage.
C3_HandshakeAccepted ==
    [][/\ \A n \in 1..READ_BUFFER_SIZE : \A k \in 1..n :
            (/\ sm.state \in {S_Init, WaitForHandshake}
             /\ n <= Len(wire)
             /\ sm.handshake_buf \o SubSeq(wire, 1, k) = HandshakeLine
             /\ CallConsume(n))
            => /\ pc' = "handshake_response"
               /\ out' = <<HANDSHAKE_RESPONSE>>
               /\ sent' = <<>>
               /\ data' = SubSeq(wire, k + 1, n)
               /\ sm'.handshake_buf = <<>>
       /\ (pc = "handshake_response" /\ WriteOk)
            => /\ sent' = Append(sent, HANDSHAKE_RESPONSE)
               /\ pc' # "handshake_response"
               /\ sm'.handshake_complete
               /\ sm'.handshake_deadline = NONE
               /\ data = <<>> => /\ sm'.state = WaitForMessage
                                 /\ sm'.frame_buf = <<>>
                                 /\ pc' = "idle"
                                 /\ result' = "Ok"
      ]_vars

\* consume returned Ok after the handshake line, received in two chunks.
C3_Witness ==
    /\ ReturnedOk
    /\ call = "consume"
    /\ sent = <<HANDSHAKE_RESPONSE>>
    /\ sm.state = WaitForMessage
    /\ sm.handshake_complete
    /\ sm.handshake_deadline = NONE
    /\ sm.frame_buf = <<>>
    /\ wire = <<>>

\* chunk ends a line: its last byte is the delimiter, none before it is.
EndsLine(chunk) ==
    /\ chunk # <<>>
    /\ \A i \in 1..Len(chunk) : (chunk[i] = HANDSHAKE_DELIMITER[1]) <=> (i = Len(chunk))

\* consume has returned Ok with no match: nothing written, still waiting for
\* the handshake, the handshake buffer empty.
Rejected ==
    /\ pc = "idle"
    /\ result = "Ok"
    /\ sent = <<>>
    /\ sm.state = WaitForHandshake
    /\ ~sm.handshake_complete
    /\ sm.handshake_buf = <<>>

\* C4 as stated: in WaitForHandshake every line (the bytes in the handshake
\* buffer and the chunk that ends the line) that is not HANDSHAKE_COMMAND and
\* the delimiter is rejected.
C4_EveryOtherLineRejected ==
    [][\A n \in 1..READ_BUFFER_SIZE :
         (/\ sm.state = WaitForHandshake
          /\ n <= Len(wire)
          /\ EndsLine(SubSeq(wire, 1, n))
          /\ sm.handshake_buf \o SubSeq(wire, 1, n) # HandshakeLine
          /\ CallConsume(n))
         => Rejected'
      ]_vars

\* C4, amended: in WaitForHandshake every line that fits the handshake buffer
\* (at most HANDSHAKE_BUFFER_SIZE bytes with its delimiter) and is not
\* HANDSHAKE_COMMAND and the delimiter is rejected.
C4_FittingLineRejected ==
    [][\A n \in 1..READ_BUFFER_SIZE :
         (/\ sm.state = WaitForHandshake
          /\ n <= Len(wire)
          /\ EndsLine(SubSeq(wire, 1, n))
          /\ Len(sm.handshake_buf) + n <= HANDSHAKE_BUFFER_SIZE
          /\ sm.handshake_buf \o SubSeq(wire, 1, n) # HandshakeLine
          /\ CallConsume(n))
         => Rejected'
      ]_vars

\* The first bytes of the line "XSiTerm?" are in the handshake buffer and the
\* rest of it is what consume gets next.
C4_Witness ==
    /\ pc = "idle"
    /\ result = "Ok"
    /\ sm.state = WaitForHandshake
    /\ sm.handshake_buf # <<>>
    /\ wire # <<>>
    /\ sm.handshake_buf \o wire = PrefixedLine

\* C5: handle_handshake_timeout empties the handshake buffer and the frame
\* buffer, makes the handshake incomplete and writes one framed
\* "ERR: Timeout"; when the write has succeeded it returns Ok in
\* WaitForHandshake with these still so, and the whole of HANDSHAKE_TIMEOUT
\* is left until the deadline.
C5_TimeoutRecovery ==
    [][/\ CallTimeout
            => /\ sm'.handshake_buf = <<>>
               /\ sm'.frame_buf = <<>>
               /\ ~sm'.handshake_complete
               /\ pc' = "flush_error"
               /\ Flatten(out') = Frame(ErrMessage("Timeout"))
               /\ sent' = <<>>
       /\ (call = "handle_handshake_timeout" /\ WriteOk /\ pc' = "idle")
            => /\ result' = "Ok"
               /\ Flatten(sent') = Frame(ErrMessage("Timeout"))
               /\ sm'.state = WaitForHandshake
               /\ sm'.handshake_deadline = HANDSHAKE_TIMEOUT
               /\ sm'.handshake_buf = <<>>
               /\ sm'.frame_buf = <<>>
               /\ ~sm'.handshake_complete
      ]_vars

\* handle_handshake_timeout has returned Ok.
C5_Witness ==
    /\ ReturnedOk
    /\ call = "handle_handshake_timeout"
    /\ Flatten(sent) = Frame(ErrMessage("Timeout"))
    /\ sm.state = WaitForHandshake
    /\ sm.handshake_deadline = HANDSHAKE_TIMEOUT

\* C6: in WaitForMessage, ParseCommand, ExecuteAction and SendResponse the
\* handshake is complete; while it is not, the frame buffer is empty, no
\* command is pending, no handler is running and no response is being sent.
C6_NoCommandBeforeHandshake ==
    /\ sm.state \in {WaitForMessage, ParseCommand, ExecuteAction, SendResponse}
         => sm.handshake_complete
    /\ ~sm.handshake_complete
         => /\ sm.frame_buf = <<>>
            /\ sm.command_buf = <<>>
            /\ sm.pending_command = NoCommand
            /\ pc \notin {"handler", "flush_response"}

\* A frame was sent before the handshake and consume has taken it whole.
C6_Witness ==
    /\ ReturnedOk
    /\ call = "consume"
    /\ ~sm.handshake_complete
    /\ sm.state = WaitForHandshake
    /\ sm.handshake_buf = EchoFrame
    /\ sm.frame_buf = <<>>

\* The error is resolved: the machine waits for a message when the handshake
\* is complete, and else for the handshake with the whole of
\* HANDSHAKE_TIMEOUT left until the deadline.
Recovered ==
    IF sm.handshake_complete
    THEN sm.state = WaitForMessage
    ELSE sm.state = WaitForHandshake /\ sm.handshake_deadline = HANDSHAKE_TIMEOUT

\* C2: from every state Error(kind), however many faults led to it, the
\* machine comes to WaitForMessage when the handshake is complete and else to
\* WaitForHandshake with the deadline armed anew, unless the connection is
\* reset (Init) or its endpoint disabled before that.
C2_ErrorResolves ==
    (sm.state.tag = "Error")
        ~> (Recovered \/ sm.state = S_Init \/ result = "Disabled")

\* A write failed while an error was being reported, consume was called again
\* and has reported it and returned Ok.
C2_Witness ==
    /\ ReturnedOk
    /\ call = "consume"
    /\ faults.write_fails > 0
    /\ Flatten(sent) = Frame(ErrMessage("InvalidChecksum") \o ERR_SEPARATOR)
    /\ Recovered

\* The frame in bytes is incomplete.
Incomplete(bytes) == take_from_bytes(bytes).tag = "UnexpectedEnd"

\* "rp2040: hi"
EchoResponse == ECHO_PREFIX \o <<104, 105>>

\* C7: in WaitForMessage, when the bytes of a chunk fill the frame buffer
\* without completing a frame and one more byte arrives, the frame buffer is
\* emptied, the state is Error(InvalidChecksum) and one framed
\* "ERR: InvalidChecksum" is written; when the write has succeeded and no byte
\* of the chunk is left, consume returns Ok in WaitForMessage with the frame
\* buffer empty; and a frame received in WaitForMessage with an empty frame
\* buffer is decoded and answered.
C7_FrameOverflowRecovery ==
    [][/\ \A n \in 1..READ_BUFFER_SIZE :
            (/\ sm.state = WaitForMessage
             /\ n <= Len(wire)
             /\ FRAME_BUFFER_SIZE - Len(sm.frame_buf) < n
             /\ \A j \in 0..(FRAME_BUFFER_SIZE - Len(sm.frame_buf)) :
                    Incomplete(sm.frame_buf \o SubSeq(wire, 1, j))
             /\ CallConsume(n))
            => /\ pc' = "flush_error"
               /\ sm'.state = ErrorState("InvalidChecksum")
               /\ sm'.frame_buf = <<>>
               /\ Flatten(out') = Frame(ErrMessage("InvalidChecksum"))
               /\ sent' = <<>>
               /\ data' = SubSeq(wire, FRAME_BUFFER_SIZE - Len(sm.frame_buf) + 2, n)
       /\ (/\ sm.state = ErrorState("InvalidChecksum")
           /\ sm.handshake_complete
           /\ Len(out) = 1
           /\ data = <<>>
           /\ WriteOk)
            => /\ pc' = "idle"
               /\ result' = "Ok"
               /\ sm'.state = WaitForMessage
               /\ sm'.frame_buf = <<>>
       /\ (/\ sm.state = WaitForMessage
           /\ sm.frame_buf = <<>>
           /\ wire = EchoFrame
           /\ CallConsume(Len(EchoFrame)))
            => /\ pc' = "flush_response"
               /\ Flatten(out') = Frame(EchoResponse)
               /\ sm'.frame_buf = <<>>
      ]_vars

\* One call of consume got the byte that overflowed the frame buffer and
\* the echo frame after it, with no fault of the transport: it has written
\* the error and the answer to the frame.
C7_Witness ==
    /\ ReturnedOk
    /\ call = "consume"
    /\ faults = [overflows |-> 0, write_fails |-> 0]
    /\ Flatten(sent) = Frame(ErrMessage("InvalidChecksum")) \o Frame(EchoResponse)
    /\ sm.state = WaitForMessage
    /\ sm.frame_buf = <<>>

\* C8: take_ready_frame on a frame buffer that starts with a bad length
\* prefix or with a frame whose payload is larger than the command buffer
\* empties the frame buffer, the bytes after the bad frame too, and the
\* machine enters Error(InvalidChecksum).
C8_BadFrameDiscardsAll ==
    [][(TakeReadyFrame /\ \E b \in BadFrames, t \in FrameTails : sm.frame_buf = b \o t)
         => /\ sm'.frame_buf = <<>>
            /\ sm'.command_buf = <<>>
            /\ sm'.pending_command = NoCommand
            /\ sm'.state = ErrorState("InvalidChecksum")
      ]_vars

\* A frame too large for the command buffer with two bytes after it was in
\* the frame buffer.
C8_Witness ==
    /\ call = "take_ready_frame"
    /\ wire = OversizeFrame \o <<1, 9>>
    /\ sm.frame_buf = <<>>
    /\ sm.state = ErrorState("InvalidChecksum")

\* C9: in WaitForMessage, a chunk that leaves the frame in the frame buffer
\* incomplete after each of its bytes, and fits the frame buffer, is appended
\* to the frame buffer and nothing else of the machine changes; consume
\* returns Ok and has written nothing.
C9_IncompleteFrameKept ==
    [][\A n \in 0..READ_BUFFER_SIZE :
         (/\ sm.state = WaitForMessage
          /\ n <= Len(wire)
          /\ Len(sm.frame_buf) + n <= FRAME_BUFFER_SIZE
          /\ \A j \in 0..n : Incomplete(sm.frame_buf \o SubSeq(wire, 1, j))
          /\ CallConsume(n))
         => /\ sm' = [sm EXCEPT !.frame_buf = sm.frame_buf \o SubSeq(wire, 1, n)]
            /\ pc' = "idle"
            /\ result' = "Ok"
            /\ sent' = <<>>
            /\ out' = <<>>
      ]_vars

\* consume has returned with the first bytes of a frame in the frame buffer.
C9_Witness ==
    /\ ReturnedOk
    /\ call = "consume"
    /\ sm.state = WaitForMessage
    /\ Len(sm.frame_buf) > 1
    /\ sm.frame_buf \o wire = EchoFrame
    /\ sent = <<>>

\* C10: take_ready_frame on a frame buffer that holds a whole frame and bytes
\* after it copies the payload of the frame to the command buffer and leaves
\* in the frame buffer the bytes after the frame, in their order; drop_prefix
\* removes the first count bytes, none for 0 and all for the length or more.
C10_FrameTakenPrefixDropped ==
    [][/\ TakeReadyFrame
            => \A p \in FramePayloads, t \in FrameTails :
                 (sm.frame_buf = Frame(p) \o t)
                 => /\ sm'.command_buf = p
                    /\ sm'.frame_buf = t
                    /\ sm'.state = ParseCommand
       /\ \A count \in 0..(FRAME_BUFFER_SIZE + 1) :
            DropPrefix(count)
            => /\ sm'.frame_buf = SubSeq(sm.frame_buf, count + 1, Len(sm.frame_buf))
               /\ count = 0 => sm'.frame_buf = sm.frame_buf
               /\ count >= Len(sm.frame_buf) => sm'.frame_buf = <<>>
      ]_vars

\* A frame with a frame after it was in the frame buffer: its payload is in
\* the command buffer and the frame after it is what the frame buffer holds.
C10_Witness ==
    /\ call = "take_ready_frame"
    /\ wire = I2cReadFrame \o EchoFrame
    /\ sm.state = ParseCommand
    /\ sm.command_buf = <<METHOD_I2C, OPERATION_READ, 80, 1, 1>>
    /\ sm.frame_buf = EchoFrame

\* C11: a payload that fits the command buffer is encoded into the encoded
\* frame buffer, and whatever was encoded, of any length, decodes to the same
\* payload, with every encoded byte consumed and none left over.
C11_FrameRoundTrip ==
    /\ (call = "encode_into" /\ Len(data) <= MAX_COMMAND_SIZE) => result = "Ok"
    /\ call = "take_from_bytes"
         => /\ result = "Ok"
            /\ sent = <<data>>
            /\ out = <<<<>>>>
            /\ sends = Len(wire)

\* A payload of 300 bytes, whose length prefix takes two bytes, has been
\* encoded and decoded.
C11_Witness ==
    /\ call = "take_from_bytes"
    /\ Len(data) = 300
    /\ Len(wire) = 302
    /\ sent = <<data>>

\* C12: a call of consume with a chunk leaves the machine (its state and
\* every buffer) and writes the packets that two calls leave and write which
\* get the chunk cut at any place; so every way of splitting a stream into
\* calls gives what feeding it a byte at a time gives.
C12_ChunkingIndependence ==
    [][\A n \in 0..READ_BUFFER_SIZE :
         (n <= Len(wire) /\ ChunkConsume(n))
         => \A k \in 0..n :
              \A a \in {consume(sm, SubSeq(wire, 1, k), ChunkOutcome(result))} :
              \A b \in {consume(a.m, SubSeq(wire, k + 1, n), ChunkOutcome(result))} :
                 /\ sm' = b.m
                 /\ sent' = sent \o a.sent \o b.sent
      ]_vars

\* The stream was cut inside the handshake line and inside the second echo
\* frame: the answers to the line and to the first frame are written, the
\* first bytes of the second frame are in the frame buffer and the rest of it
\* is yet to be fed.
C12_Witness ==
    /\ call = "consume"
    /\ data = HandshakeLine \o EchoFrame \o EchoFrame
    /\ Len(wire) = 2
    /\ sm.state = WaitForMessage
    /\ sm.frame_buf \o wire = EchoFrame
    /\ Flatten(sent) = HANDSHAKE_RESPONSE \o Frame(EchoResponse)

\* bytes start with a whole frame whose payload, as an echo, fits the
\* response buffer after the echo prefix.
StartsFrame(bytes) ==
    \E f \in {take_from_bytes(bytes)} :
        f.tag = "Ok" /\ Len(f.payload) + Len(ECHO_PREFIX) <= MAX_COMMAND_SIZE

\* The reply to a frame of payload p: the await the machine stops at next and
\* the message it writes there (the handler is awaited before an I2C reply).
FrameReply(p) ==
    LET d == decode_command(p)
    IN IF d.tag = "Err"
       THEN [io |-> "flush_error", payload |-> ErrMessage(map_protocol_error(d.err))]
       ELSE IF d.cmd.kind = "EchoWrite"
       THEN [io |-> "flush_response", payload |-> ECHO_PREFIX \o d.cmd.payload]
       ELSE [io |-> "handler", payload |-> <<>>]

\* The step takes the first frame of bytes and no more, and stops where the
\* reply to that frame is written, as one frame.
AnswersFirstFrame(bytes) ==
    \E f \in {take_from_bytes(bytes)} : \E r \in {FrameReply(f.payload)} :
        /\ pc' = r.io
        /\ data' = f.remaining
        /\ sm'.frame_buf = <<>>
        /\ r.io # "handler" => Flatten(out') = Frame(r.payload)

\* C13: while a reply is written or a handler awaited no byte of a later
\* frame is in the frame buffer; a chunk received in WaitForMessage that
\* starts with a whole frame stops at the reply to that frame with the rest of
\* the chunk untouched; and when the last packet of a reply, or the handshake
\* response, is written and a whole frame is next in the chunk, the packet is
\* added to what was written and the machine stops at the reply to that
\* frame: one reply a frame, in the order of the frames.
C13_OneReplyPerFrameInOrder ==
    /\ [](pc \in {"flush_response", "flush_error", "handler"} => sm.frame_buf = <<>>)
    /\ [][/\ \A n \in 1..READ_BUFFER_SIZE :
               (/\ sm.state = WaitForMessage
                /\ sm.frame_buf = <<>>
                /\ n <= Len(wire)
                /\ StartsFrame(SubSeq(wire, 1, n))
                /\ CallConsume(n))
               => (sent' = <<>> /\ AnswersFirstFrame(SubSeq(wire, 1, n)))
          /\ (/\ pc \in {"handshake_response", "flush_response", "flush_error"}
              /\ pc = "flush_error" => sm.handshake_complete
              /\ Len(out) = 1
              /\ StartsFrame(data)
              /\ WriteOk)
               => (sent' = Append(sent, Head(out)) /\ AnswersFirstFrame(data))
         ]_vars

\* An echo frame and a frame of an unknown method came in one chunk, with no
\* fault of the transport: the echo response and then the error were written.
C13_Witness ==
    /\ ReturnedOk
    /\ call = "consume"
    /\ faults = [overflows |-> 0, write_fails |-> 0]
    /\ sm.state = WaitForMessage
    /\ Flatten(sent) = Frame(EchoResponse) \o Frame(ErrMessage("UnknownCommand"))

\* The frame buffer with the next n bytes holds exactly one frame, and its
\* payload is an echo command.
CompletesEcho(n) ==
    /\ n <= Len(wire)
    /\ \E f \in {take_from_bytes(sm.frame_buf \o SubSeq(wire, 1, n))} :
          /\ f.tag = "Ok"
          /\ f.remaining = <<>>
          /\ Len(f.payload) >= 2
          /\ f.payload[1] = METHOD_ECHO
          /\ f.payload[2] = OPERATION_WRITE

\* The payload of that echo command.
EchoedPayload(n) ==
    LET c == take_from_bytes(sm.frame_buf \o SubSeq(wire, 1, n)).payload
    IN SubSeq(c, 3, Len(c))

\* The last packet of a response has been written with nothing left of the
\* chunk: consume returns Ok in WaitForMessage and what it wrote is one frame.
OneResponseThenWaiting ==
    (pc = "flush_response" /\ Len(out) = 1 /\ data = <<>> /\ WriteOk)
    => /\ pc' = "idle"
       /\ result' = "Ok"
       /\ sm'.state = WaitForMessage
       /\ \E f \in {take_from_bytes(Flatten(sent'))} :
             f.tag = "Ok" /\ f.remaining = <<>>

\* C14 as stated: the chunk that completes a frame with an echo command of
\* payload p, of any length, makes the machine write the frame of the echo
\* prefix and p, and after the write consume returns Ok in WaitForMessage.
C14_EveryEchoAnswered ==
    [][/\ \A n \in 1..READ_BUFFER_SIZE :
            (sm.state = WaitForMessage /\ CompletesEcho(n) /\ CallConsume(n))
            => /\ pc' = "flush_response"
               /\ Flatten(out') = Frame(ECHO_PREFIX \o EchoedPayload(n))
       /\ OneResponseThenWaiting
      ]_vars

\* What the code does with the echo command of C14: a payload p that fits
\* the response buffer after the echo prefix is echoed; a longer p is answered
\* with the one frame "ERR: ExecutionFailed: " and the echo prefix.
FittingEchoAnswered ==
    [][/\ \A n \in 1..READ_BUFFER_SIZE :
            (sm.state = WaitForMessage /\ CompletesEcho(n) /\ CallConsume(n))
            => IF Len(ECHO_PREFIX) + Len(EchoedPayload(n)) <= MAX_COMMAND_SIZE
               THEN /\ pc' = "flush_response"
                    /\ sent' = <<>>
                    /\ Flatten(out') = Frame(ECHO_PREFIX \o EchoedPayload(n))
               ELSE /\ pc' = "flush_error"
                    /\ sent' = <<>>
                    /\ Flatten(out') =
                         Frame(ErrMessage("ExecutionFailed") \o ERR_SEPARATOR \o ECHO_PREFIX)
       /\ OneResponseThenWaiting
      ]_vars

\* The echo of the largest payload that fits the response buffer after the
\* prefix has been written.
C14_LargestEchoWritten ==
    /\ ReturnedOk
    /\ call = "consume"
    /\ sm.state = WaitForMessage
    /\ wire = <<>>
    /\ \E p \in EchoPayloads :
          /\ Len(p) = MAX_COMMAND_SIZE - Len(ECHO_PREFIX)
          /\ Flatten(sent) = Frame(ECHO_PREFIX \o p)

\* A command payload with an unknown method byte, or a known method byte and
\* an operation byte that is unknown or makes an unsupported pair.
NotACommand(c) ==
    /\ Len(c) >= 1
    /\ \/ c[1] \notin {METHOD_ECHO, METHOD_I2C, METHOD_SPI, METHOD_UART, METHOD_PWM}
       \/ /\ Len(c) >= 2
          /\ \/ c[2] \notin {OPERATION_READ, OPERATION_WRITE}
             \/ <<c[1], c[2]>> \notin COMMAND_DICTIONARY

\* C15: the chunk that completes a frame whose payload has an unknown method
\* byte, an unknown operation byte or an unsupported pair makes the machine
\* write the one frame "ERR: UnknownCommand" with no handler run (no pending
\* command, nothing in the response buffer but the message), and after the
\* write consume returns Ok in WaitForMessage.
C15_UnknownCommandAnswered ==
    [][/\ \A n \in 1..READ_BUFFER_SIZE :
            (/\ sm.state = WaitForMessage
             /\ n <= Len(wire)
             /\ \E f \in {take_from_bytes(sm.frame_buf \o SubSeq(wire, 1, n))} :
                   f.tag = "Ok" /\ f.remaining = <<>> /\ NotACommand(f.payload)
             /\ CallConsume(n))
            => /\ pc' = "flush_error"
               /\ sent' = <<>>
               /\ Flatten(out') = Frame(ErrMessage("UnknownCommand"))
               /\ sm'.state = ErrorState("UnknownCommand")
               /\ sm'.pending_command = NoCommand
               /\ sm'.response_buf = ErrMessage("UnknownCommand")
       /\ (/\ pc = "flush_error"
           /\ sm.state = ErrorState("UnknownCommand")
           /\ Len(out) = 1
           /\ data = <<>>
           /\ WriteOk)
          => /\ pc' = "idle"
             /\ result' = "Ok"
             /\ sm'.state = WaitForMessage
             /\ Flatten(sent') = Frame(ErrMessage("UnknownCommand"))
      ]_vars

\* A frame has been answered with "ERR: UnknownCommand" and nothing else, and
\* the machine waits for the next message with nothing kept of the command.
C15_Witness ==
    /\ ReturnedOk
    /\ call = "consume"
    /\ wire = <<>>
    /\ sm = MachineAfterHandshake
    /\ Flatten(sent) = Frame(ErrMessage("UnknownCommand"))

\* The command a line states: its method, operation and operands.
CommandOf(line) ==
    LET method == Method_try_from(line.method)
        operation == Operation_try_from(line.operation)
    IN IF method = METHOD_ECHO
       THEN [kind |-> "EchoWrite", payload |-> trim(line.text)]
       ELSE IF operation = OPERATION_READ
       THEN [kind |-> "I2cRead", address |-> parse_u8(line.args[1]),
             register |-> parse_u8(line.args[2]), length |-> parse_u8(line.args[3])]
       ELSE [kind |-> "I2cWrite", address |-> parse_u8(line.args[1]),
             register |-> parse_u8(line.args[2]),
             payload |-> ParseAll(SubSeq(line.args, 3, Len(line.args)))]

\* C16: the bytes the host encoder makes of a command line (an echo, an I2C
\* read or an I2C write) are decoded by the firmware to the command the line
\* states, with its method, operation and operands.
C16_CodecInverse ==
    call = "decode_command"
    => /\ out[1].tag = "Ok"
       /\ out[1].cmd = CommandOf(data)

\* What the code does: the same for the lines of the two commands of
\* COMMAND_DICTIONARY, and an I2C write is UnsupportedOperation.
DictionaryCodecInverse ==
    call = "decode_command"
    => IF <<wire[1], wire[2]>> \in COMMAND_DICTIONARY
       THEN /\ out[1].tag = "Ok"
            /\ out[1].cmd = CommandOf(data)
       ELSE /\ wire[1] = METHOD_I2C
            /\ wire[2] = OPERATION_WRITE
            /\ out[1] = ProtocolErr("UnsupportedOperation")

\* An I2C read line with hexadecimal, binary and decimal operands has been
\* encoded and decoded.
I2cReadLineDecoded ==
    /\ call = "decode_command"
    /\ data.args = <<Bin(<<1, 0, 1>>), Hex(<<1, 1>>), Dec(<<2, 5, 5>>)>>
    /\ out[1].cmd = [kind |-> "I2cRead", address |-> 5, register |-> 17, length |-> 255]

\* Response bytes of a handler: the echo prefix with or without the payload
\* after it, or the byte an I2C read returned.
HandlerProduced(bytes) ==
    \/ /\ Len(bytes) >= Len(ECHO_PREFIX)
       /\ SubSeq(bytes, 1, Len(ECHO_PREFIX)) = ECHO_PREFIX
    \/ \E o \in I2cOutcomes : o.res = "Ok" /\ bytes = <<o.byte>>

\* "ERR: " and the name of the kind, alone or followed by ": " and response
\* bytes of a handler.
ErrorPayload(bytes, err) ==
    \/ bytes = ErrMessage(err)
    \/ \E n \in {Len(ErrMessage(err) \o ERR_SEPARATOR)} :
          /\ Len(bytes) > n
          /\ SubSeq(bytes, 1, n) = ErrMessage(err) \o ERR_SEPARATOR
          /\ HandlerProduced(SubSeq(bytes, n + 1, Len(bytes)))

\* The packets being written are the rest of the one frame of the payload.
RestOfFrameOf(payload) ==
    \E pk \in {framed_packets(payload)} :
        /\ Flatten(pk) = Frame(payload)
        /\ \E i \in 0..Len(pk) : out = SubSeq(pk, i + 1, Len(pk))

\* C17: whenever an error message is being written, after a failed write of
\* the same error or of a response too, it is one frame whose payload is
\* "ERR: " and the kind, alone or followed by ": " and the response bytes the
\* handler had produced.
C17_ErrorFrameWellFormed ==
    pc = "flush_error"
    => /\ ErrorPayload(sm.response_buf, sm.state.err)
       /\ RestOfFrameOf(sm.response_buf)

\* What the code does: the same as long as no write of an error message has
\* failed on this connection; the send that follows a failed one carries the
\* message of the failed send as if it were response bytes.
FirstErrorFrameWellFormed ==
    (pc = "flush_error" /\ faults.write_fails = 0)
    => /\ ErrorPayload(sm.response_buf, sm.state.err)
       /\ RestOfFrameOf(sm.response_buf)

\* An error message is written again after its write failed: its payload is
\* the kind followed by the message that was not sent.
ErrorRetriedNested ==
    /\ pc = "flush_error"
    /\ faults.write_fails = 1
    /\ sm.response_buf = ErrMessage("Timeout") \o ERR_SEPARATOR \o ErrMessage("Timeout")

\* The machine holds a detected fault whose error message is being written,
\* or could not be written and waits for the next call.
FaultBeingReported ==
    sm.state.tag = "Error"
    => \/ pc = "flush_error" /\ out # <<>>
       \/ pc = "idle" /\ result \in WriteErrors

\* An entry point other than reset is called.
DriverCalls ==
    \/ \E n \in 0..READ_BUFFER_SIZE : CallConsume(n)
    \/ CallTimeout
    \/ CallOverflow

\* C18: a fault the machine detects (the state Error) has its error frame
\* written at once; a fault whose frame could not be written is the one the
\* next call reports, and no packet of its frame had gone out before (so the
\* host receives one frame for it); when the frame is written the fault is
\* done with.
C18_EveryFaultOneErrorFrame ==
    /\ []FaultBeingReported
    /\ [][/\ (pc = "idle" /\ sm.state.tag = "Error" /\ DriverCalls)
             => (pc' = "flush_error" /\ sm'.state = sm.state)
          /\ (pc = "flush_error" /\ WriteFail("BufferOverflow"))
             => out = framed_packets(sm.response_buf)
          /\ (pc = "flush_error" /\ Len(out) = 1 /\ data = <<>> /\ WriteOk)
             => (pc' = "idle" /\ sm'.state.tag # "Error" /\ sm'.response_buf = <<>>)
      ]_vars

\* What the code does: the same as long as every write succeeds.
FaultReportedWhenWritesSucceed ==
    /\ []FaultBeingReported
    /\ [][/\ (pc = "flush_error" /\ faults.write_fails = 0)
             => \E pk \in {framed_packets(sm.response_buf)} :
                    \E i \in 0..(Len(pk) - 1) :
                       /\ out = SubSeq(pk, i + 1, Len(pk))
                       /\ i <= Len(sent)
                       /\ SubSeq(sent, Len(sent) - i + 1, Len(sent)) = SubSeq(pk, 1, i)
          /\ (pc = "flush_error" /\ Len(out) = 1 /\ data = <<>> /\ WriteOk)
             => (pc' = "idle" /\ sm'.state.tag # "Error" /\ sm'.response_buf = <<>>)
      ]_vars

\* An error message could not be written, and the next call, for a receive
\* overflow, reports InvalidChecksum with what was left of that message.
FaultReplacedByNext ==
    /\ pc = "flush_error"
    /\ call = "handle_buffer_overflow"
    /\ faults.write_fails = 1
    /\ sm.state = ErrorState("InvalidChecksum")
    /\ sm.response_buf # ErrMessage("InvalidChecksum")
    /\ SubSeq(sm.response_buf, 1, Len(ErrMessage("InvalidChecksum")) + Len(ERR_SEPARATOR))
          = ErrMessage("InvalidChecksum") \o ERR_SEPARATOR

\* The machine reset() leaves: the four buffers empty, no pending command, the
\* handshake incomplete, the state Init and the handshake deadline armed.
MachineAfterReset ==
    [state |-> S_Init,
     handshake_buf |-> <<>>,
     frame_buf |-> <<>>,
     command_buf |-> <<>>,
     response_buf |-> <<>>,
     pending_command |-> NoCommand,
     handshake_deadline |-> HANDSHAKE_TIMEOUT,
     handshake_complete |-> FALSE]

\* C19: reset() makes of every reachable machine, whatever it holds, the
\* machine with empty buffers, no pending command, the handshake incomplete,
\* the state Init and the deadline armed, which is what the driver's reset on
\* a new connection leaves; and with the handshake incomplete no frame is
\* kept, no handler awaited and no response written.
C19_ResetForgetsSession ==
    /\ [](reset(sm) = MachineAfterReset)
    /\ [](~sm.handshake_complete
            => (sm.frame_buf = <<>> /\ pc \notin {"handler", "flush_response"}))
    /\ [][CallReset => (sm' = MachineAfterReset /\ pc' = "idle" /\ wire' = <<>>)]_vars

\* reset() has been called on a connection on which the host had sent all it
\* sends and a write had failed.
C19_Witness ==
    /\ call = "reset"
    /\ sm = MachineAfterReset
    /\ pc = "idle"
    /\ sends = MaxSends
    /\ faults.write_fails = MaxWriteFails

\* The attempts of the log, in order.
Attempts(log) == SelectSeq(log, LAMBDA e : e.await = "write_packet")

\* C20: write_packet_with_retry waits and tries again only after an attempt
\* that failed with BufferOverflow before the deadline; when it has returned
\* it has made at least one attempt, every attempt but the last failed with
\* BufferOverflow, and it returns the outcome of the last: Ok, another error
\* at once, or BufferOverflow with the deadline, counted from the call,
\* reached when that attempt failed.
C20_RetryOnlyOnBufferFull ==
    LET attempts == Attempts(sent)
        last == attempts[Len(attempts)]
    IN /\ \A i \in 1..(Len(attempts) - 1) : attempts[i].outcome = "BufferOverflow"
       /\ pc = "timer"
          => /\ sent[Len(sent)].await = "write_packet"
             /\ sent[Len(sent)].outcome = "BufferOverflow"
             /\ Elapsed(sent) < WRITE_RETRY_TIMEOUT_MS
       /\ pc = "write_packet"
          => (sent = <<>> \/ sent[Len(sent)].await = "timer")
       /\ pc = "idle"
          => /\ Len(attempts) >= 1
             /\ sent[Len(sent)] = last
             /\ result = last.outcome
             /\ result = "BufferOverflow" => Elapsed(sent) >= WRITE_RETRY_TIMEOUT_MS

\* The function has returned BufferOverflow after more than one retry, its
\* last attempt having started before the deadline.
C20_Witness ==
    /\ pc = "idle"
    /\ result = "BufferOverflow"
    /\ Len(Attempts(sent)) >= 3
    /\ Elapsed(sent) >= WRITE_RETRY_TIMEOUT_MS
    /\ Elapsed(SubSeq(sent, 1, Len(sent) - 1)) < WRITE_RETRY_TIMEOUT_MS

\* C21: write_packet_with_retry returns, whatever the transport answers, when
\* every attempt returns and every timer fires.
C21_RetryTerminates == <>(pc = "idle")

\* What the code does: the function of usb_transport.rs returns, after at
\* most one attempt for every timer that fits before the deadline and one
\* more; the loop of main.rs goes on for as long as the buffer is full.
UsbTransportRetryTerminates ==
    /\ (call = "write_packet_with_retry") ~> (pc = "idle")
    /\ [](call = "write_packet_with_retry"
            => Len(Attempts(sent)) <= WRITE_RETRY_TIMEOUT_MS \div RETRY_INTERVAL_MS + 1)

\* The loop of main.rs has made MaxAttempts attempts and waits to try again.
MainRetryGoesOn ==
    /\ call = "main::write_packet_with_retry"
    /\ pc = "timer"
    /\ sends = MaxAttempts

\* The error frame of a receive overflow is out: the machine waits for a
\* message after a handshake and for the handshake without one.
OverflowReportDone ==
    (/\ call = "handle_buffer_overflow"
     /\ pc = "flush_error"
     /\ Len(out) = 1
     /\ WriteOk)
    => /\ pc' = "idle"
       /\ result' = "Ok"
       /\ sm'.state = IF sm.handshake_complete THEN WaitForMessage ELSE WaitForHandshake
       /\ sm'.frame_buf = <<>>
       /\ sm'.response_buf = <<>>

\* C22: the entry point for a receive overflow of the transport empties the
\* frame buffer, enters Error(InvalidChecksum) and writes the one frame
\* "ERR: InvalidChecksum", as the overflow of the frame buffer does (C7); with
\* the frame written the machine is in WaitForMessage if the handshake had
\* completed and in WaitForHandshake if not.
C22_ReceiveOverflowReported ==
    [][/\ CallOverflow
          => /\ pc' = "flush_error"
             /\ sm'.state = ErrorState("InvalidChecksum")
             /\ sm'.frame_buf = <<>>
             /\ sm'.handshake_complete = sm.handshake_complete
             /\ sent' = <<>>
             /\ Flatten(out') = Frame(ErrMessage("InvalidChecksum"))
       /\ OverflowReportDone
      ]_vars

\* What the code does: the same when the response buffer is empty at the
\* call; a response or an error message that a failed write left in it
\* follows "ERR: InvalidChecksum: " in the frame, as far as it fits.
OverflowReportedWithLeftover ==
    [][/\ CallOverflow
          => /\ pc' = "flush_error"
             /\ sm'.state = ErrorState("InvalidChecksum")
             /\ sm'.frame_buf = <<>>
             /\ sm'.handshake_complete = sm.handshake_complete
             /\ sent' = <<>>
             /\ Flatten(out') = Frame(error_message(sm, "InvalidChecksum"))
             /\ sm.response_buf = <<>>
                => Flatten(out') = Frame(ErrMessage("InvalidChecksum"))
       /\ OverflowReportDone
      ]_vars

\* A receive overflow before the handshake has been reported and the machine
\* waits for the handshake, the line it had begun kept.
OverflowReportedBeforeHandshake ==
    /\ ReturnedOk
    /\ call = "handle_buffer_overflow"
    /\ sm.state = WaitForHandshake
    /\ sm.handshake_buf # <<>>
    /\ Flatten(sent) = Frame(ErrMessage("InvalidChecksum"))

\* The line is "i2c read" or "i2c write", in any of its spellings.
I2cLine(line, operation) ==
    /\ Method_try_from(line.method) = METHOD_I2C
    /\ line.operation # ""
    /\ Operation_try_from(line.operation) = operation

AllNumeric(args) == \A i \in 1..Len(args) : parse_u8(args[i]) # NONE

\* C23: the line "i2c read <address> <register>", with two numeric
\* arguments, is encoded as the four bytes I2C, Read, address, register.
C23_I2cReadTwoArguments ==
    (/\ call = "encode_command"
     /\ I2cLine(data, OPERATION_READ)
     /\ Len(data.args) = 2
     /\ AllNumeric(data.args))
    => /\ result = "Ok"
       /\ wire = <<METHOD_I2C, OPERATION_READ,
                   parse_u8(data.args[1]), parse_u8(data.args[2])>>

\* What the code does: "i2c read" takes three numeric arguments and gives
\* five bytes; with two it fails with MissingArgument { index: 2 }.
I2cReadThreeArguments ==
    (/\ call = "encode_command"
     /\ I2cLine(data, OPERATION_READ)
     /\ AllNumeric(data.args))
    => /\ Len(data.args) = 2
          => (result = "MissingArgument" /\ out[1].index = 2 /\ wire = <<>>)
       /\ Len(data.args) = 3
          => /\ result = "Ok"
             /\ wire = <<METHOD_I2C, OPERATION_READ>> \o ParseAll(data.args)

\* "i2c read 0x80 0x11" has been refused.
I2cReadTwoArgumentsRefused ==
    /\ call = "encode_command"
    /\ I2cLine(data, OPERATION_READ)
    /\ data.args = <<Hex(<<8, 0>>), Hex(<<1, 1>>)>>
    /\ result = "MissingArgument"

\* C24: the line "i2c write <address> <register> <b1> ... <bn>" with
\* 1 <= n <= 255 numeric data bytes is encoded as I2C, Write, address,
\* register, n, b1, ..., bn.
C24_I2cWriteCountByte ==
    (/\ call = "encode_command"
     /\ I2cLine(data, OPERATION_WRITE)
     /\ Len(data.args) - 2 \in 1..U8_MAX
     /\ AllNumeric(data.args))
    => /\ result = "Ok"
       /\ Len(wire) = Len(data.args) + 3
       /\ SubSeq(wire, 1, 5) = <<METHOD_I2C, OPERATION_WRITE, parse_u8(data.args[1]),
                                 parse_u8(data.args[2]), Len(data.args) - 2>>
       /\ \A i \in 1..(Len(data.args) - 2) : wire[5 + i] = parse_u8(data.args[2 + i])

\* An i2c write line with 255 data bytes has been encoded.
C24_Witness ==
    /\ call = "encode_command"
    /\ I2cLine(data, OPERATION_WRITE)
    /\ Len(data.args) = U8_MAX + 2
    /\ result = "Ok"
    /\ wire[5] = U8_MAX
    /\ wire[Len(wire)] = 5

\* C25: an i2c line with only k of its three required arguments fails with
\* MissingArgument and the index k, a line with an unknown method keyword
\* fails with UnknownMethod, and neither returns command bytes.
C25_MissingArgumentIndex ==
    call = "encode_command"
    => /\ (/\ \/ I2cLine(data, OPERATION_READ)
               \/ I2cLine(data, OPERATION_WRITE)
            /\ Len(data.args) < 3)
          => /\ result = "MissingArgument"
             /\ out[1].index = Len(data.args)
             /\ out[1].bytes = <<>>
             /\ wire = <<>>
       /\ (data.method # "" /\ Method_try_from(data.method) = NONE)
          => /\ result = "UnknownMethod"
             /\ out[1].bytes = <<>>
             /\ wire = <<>>

\* "i2c read 0x80" has failed with MissingArgument { index: 1 }.
C25_Witness ==
    /\ call = "encode_command"
    /\ I2cLine(data, OPERATION_READ)
    /\ data.args = <<Hex(<<8, 0>>)>>
    /\ result = "MissingArgument"
    /\ out[1].index = 1
    /\ wire = <<>>

\* The edges of the state diagram.
Edge(from, to) ==
    \/ from = S_Init /\ to = WaitForHandshake
    \/ from = WaitForHandshake /\ to = WaitForMessage
    \/ from = WaitForMessage /\ to \in {ParseCommand, ErrorState("InvalidChecksum")}
    \/ from = ParseCommand /\ (to = ExecuteAction \/ to.tag = "Error")
    \/ from = ExecuteAction /\ (to = SendResponse \/ to.tag = "Error")
    \/ from = SendResponse /\ to = WaitForMessage
    \/ from.tag = "Error" /\ to \in {WaitForMessage, WaitForHandshake}

\* The state an entry point enters whatever the state it is called in.
EntryOf(name) ==
    CASE name = "handle_handshake_timeout" -> ErrorState("Timeout")
      [] name = "handle_buffer_overflow" -> ErrorState("InvalidChecksum")
      [] name = "reset" -> S_Init

\* C26: every change of the state is an edge of the diagram (the change from
\* WaitForHandshake to WaitForMessage being that of a matched handshake), or
\* the entry to Error(Timeout) by handle_handshake_timeout, to
\* Error(InvalidChecksum) by handle_buffer_overflow, or to Init by reset.
C26_OnlyDiagramEdges ==
    [][sm'.state # sm.state
       => \/ /\ Edge(sm.state, sm'.state)
             /\ sm.state = WaitForHandshake
                => (pc = "handshake_response" /\ sm'.handshake_complete)
          \/ /\ pc = "idle"
             /\ call' \in {"handle_handshake_timeout", "handle_buffer_overflow", "reset"}
             /\ sm'.state = EntryOf(call')]_vars

\* An I2C read has gone from WaitForMessage through ParseCommand and
\* ExecuteAction to SendResponse, and its response is being written.
C26_Witness ==
    /\ sm.state = SendResponse
    /\ pc = "flush_response"
    /\ call = "consume"
    /\ sm.handshake_complete
    /\ sm.response_buf # <<>>
    /\ Len(sm.response_buf) < Len(ECHO_PREFIX)

\* C27: once an entry point has been called, a machine in Init or
\* WaitForHandshake has the handshake incomplete and a deadline armed, and
\* handshake_timeout_remaining returns the time left, zero once the deadline
\* has passed; with the handshake complete or in any other state it returns
\* none.
C27_TimeoutRemaining ==
    call # "new"
    => /\ sm.state \in {S_Init, WaitForHandshake}
          => /\ ~sm.handshake_complete
             /\ sm.handshake_deadline # NONE
             /\ handshake_timeout_remaining(sm) # NONE
             /\ handshake_timeout_remaining(sm) >= 0
             /\ sm.handshake_deadline <= 0 => handshake_timeout_remaining(sm) = 0
       /\ (sm.handshake_complete \/ sm.state \notin {S_Init, WaitForHandshake})
          => handshake_timeout_remaining(sm) = NONE

\* The machine waits for the handshake, its deadline has passed and no time
\* remains.
C27_Witness ==
    /\ call = "consume"
    /\ pc = "idle"
    /\ sm.state = WaitForHandshake
    /\ sm.handshake_buf # <<>>
    /\ sm.handshake_deadline = 0
    /\ handshake_timeout_remaining(sm) = 0

\* Bytes that may find the handshake buffer full: junk, the delimiter, the
\* first byte of the phrase, the least and the greatest byte.
OverflowingBytes == {88, HANDSHAKE_DELIMITER[1], HANDSHAKE_COMMAND[1], 0, 255}

\* The machine waits for the handshake with a full handshake buffer.
HandshakeBufferFull ==
    /\ pc = "idle"
    /\ sm.state = WaitForHandshake
    /\ Len(sm.handshake_buf) = HANDSHAKE_BUFFER_SIZE

\* From machine m the handshake line, alone or after the rest of a line,
\* completes the handshake and is answered with the handshake response.
FreshLineCompletes(m) ==
    \A junk \in {<<>>, HANDSHAKE_DELIMITER, <<88, 88>> \o HANDSHAKE_DELIMITER} :
        \A o \in I2cOutcomes : \E r \in {consume(m, junk \o HandshakeLine, o)} :
            /\ r.m.state = WaitForMessage
            /\ r.m.handshake_complete
            /\ r.sent = <<HANDSHAKE_RESPONSE>>

\* C28: a call of consume with one byte, made in WaitForHandshake with the
\* handshake buffer full, empties that buffer and changes nothing else (the
\* state, the frame buffer and the deadline are as they were), writes
\* nothing and returns Ok, whatever the byte is; the handshake line sent
\* next, or after the delimiter that ends the overlong line, completes the
\* handshake.
C28_FullHandshakeBufferReset ==
    [][(/\ HandshakeBufferFull
        /\ call' = "consume"
        /\ Len(wire') = Len(wire) - 1)
       => /\ sm' = [sm EXCEPT !.handshake_buf = <<>>]
          /\ sm'.state = WaitForHandshake
          /\ sm'.frame_buf = sm.frame_buf
          /\ sm'.handshake_deadline = sm.handshake_deadline
          /\ sent' = <<>>
          /\ pc' = "idle"
          /\ result' = "Ok"
          /\ \A b \in OverflowingBytes : \A o \in I2cOutcomes :
                consume(sm, <<b>>, o) = [m |-> sm', sent |-> <<>>]
          /\ FreshLineCompletes(sm')]_vars

\* The handshake buffer is full and the host's next byte is to be read.
C28_Witness ==
    /\ HandshakeBufferFull
    /\ call = "consume"
    /\ wire # <<>>
    /\ ~sm.handshake_complete
    /\ sm.handshake_deadline # NONE

\* C29: decode_command takes the method from byte 0 and the operation from
\* byte 1; a known pair outside the dictionary is UnsupportedOperation
\* whatever the operands are; an I2C read with fewer than three operand
\* bytes is MalformedPayload and with three it is I2cRead of address,
\* register and length in that order; a known method byte alone is Empty.
C29_DecodeOrder ==
    call = "decode_command"
    => \E r \in {out[1]} :
          /\ r.tag = "Ok"
             => /\ Len(wire) >= 2
                /\ <<wire[1], wire[2]>> \in COMMAND_DICTIONARY
                /\ r.cmd.kind = "EchoWrite" <=> wire[1] = METHOD_ECHO
                /\ r.cmd.kind = "I2cRead" <=> wire[1] = METHOD_I2C
          /\ (/\ Len(wire) >= 2
              /\ Method_from_byte(wire[1])
              /\ Operation_from_byte(wire[2])
              /\ <<wire[1], wire[2]>> \notin COMMAND_DICTIONARY)
             => (r.tag = "Err" /\ r.err = "UnsupportedOperation")
          /\ (/\ Len(wire) >= 2
              /\ wire[1] = METHOD_I2C
              /\ wire[2] = OPERATION_READ)
             => /\ Len(wire) - 2 < 3
                   => (r.tag = "Err" /\ r.err = "MalformedPayload")
                /\ Len(wire) - 2 = 3
                   => /\ r.tag = "Ok"
                      /\ r.cmd = [kind |-> "I2cRead", address |-> wire[3],
                                  register |-> wire[4], length |-> wire[5]]
          /\ (Len(wire) = 1 /\ Method_from_byte(wire[1]))
             => (r.tag = "Err" /\ r.err = "Empty")

\* An I2C read with two operand bytes has been rejected as MalformedPayload.
C29_Witness ==
    /\ call = "decode_command"
    /\ wire = <<METHOD_I2C, OPERATION_READ, 7, 8>>
    /\ out[1].tag = "Err"
    /\ out[1].err = "MalformedPayload"

\* The bytes the step hands to the machine: the chunk of the call of consume
\* it makes, or the rest of the chunk of the call that goes on.
BytesOfStep ==
    IF pc = "idle" THEN SubSeq(wire, 1, Len(wire) - Len(wire')) ELSE data

\* The step makes the machine decode a frame whose command has an
\* unrecognized method or operation byte or an unsupported pair.
DecodesNotACommand ==
    /\ pc # "handler"
    /\ Len(wire') <= Len(wire)
    /\ \E f \in {take_from_bytes(sm.frame_buf \o BytesOfStep)} :
          f.tag = "Ok" /\ NotACommand(f.payload)

\* The step is the call of handle_handshake_timeout, the deadline exceeded.
DeadlineExceeded ==
    /\ pc = "idle"
    /\ handshake_timeout_remaining(sm) = 0
    /\ call' = "handle_handshake_timeout"

\* C30: the kind of every error frame is the kind of its cause: the machine
\* comes to write "ERR: Timeout" only by the call made when the handshake
\* deadline is exceeded, "ERR: UnknownCommand" only by decoding a command
\* with an unrecognized or unsupported method or operation, and the failure
\* of a peripheral handler is written as "ERR: ExecutionFailed".
C30_ErrorKindMatchesCause ==
    [][/\ (sm'.state = ErrorState("Timeout") /\ sm.state # sm'.state)
          => DeadlineExceeded
       /\ (sm'.state = ErrorState("UnknownCommand") /\ sm.state # sm'.state)
          => DecodesNotACommand
       /\ (pc = "handler" /\ sm'.state.tag = "Error")
          => /\ sm'.state = ErrorState("ExecutionFailed")
             /\ pc' = "flush_error"
             /\ sm'.response_buf = ErrMessage("ExecutionFailed")
      ]_vars

\* What the code does: apart from the handler's failures the kinds match
\* their causes, and a failure of the I2C handler is written with the kind
\* map_i2c_err gives the error of the bus.
ErrorKindMatchesCauseOrBusError ==
    [][/\ (pc # "handler" /\ sm'.state = ErrorState("Timeout") /\ sm.state # sm'.state)
          => DeadlineExceeded
       /\ (pc # "handler" /\ sm'.state = ErrorState("UnknownCommand")
              /\ sm.state # sm'.state)
          => DecodesNotACommand
       /\ (pc = "handler" /\ sm'.state.tag = "Error")
          => /\ \E e \in I2cErrors : sm'.state = ErrorState(map_i2c_err(e))
             /\ pc' = "flush_error"
             /\ sm'.response_buf = ErrMessage(sm'.state.err)
      ]_vars

\* An I2C read failed on the bus and "ERR: Timeout" is being written to a
\* host whose handshake is complete.
HandlerFailureSentAsTimeout ==
    /\ pc = "flush_error"
    /\ call = "consume"
    /\ sm.handshake_complete
    /\ sm.state = ErrorState("Timeout")
    /\ Flatten(out) = Frame(ErrMessage("Timeout"))

\* The packets are consecutive pieces of bytes: each but the last has the
\* packet size and the last has at most that and at least one byte.
ConsecutivePackets(packets, bytes) ==
    /\ Flatten(packets) = bytes
    /\ \A i \in 1..Len(packets) :
          /\ Len(packets[i]) \in 1..READ_BUFFER_SIZE
          /\ i < Len(packets) => Len(packets[i]) = READ_BUFFER_SIZE

\* C31: send_framed_payload writes the encoded frame as consecutive packets
\* of at most READ_BUFFER_SIZE bytes, in order, without gap or overlap; the
\* packets written are the frame up to the offset and, when it returns Ok,
\* the whole frame; each packet is retried against a deadline of its own,
\* WRITE_RETRY_TIMEOUT_MS after its first attempt was started; when a packet
\* fails the function returns the failure with the packets after it unwritten.
C31_FrameInPackets ==
    call = "send_framed_payload"
    => /\ out # <<>> => out = Frame(data)
       /\ sends <= Len(out)
       /\ ConsecutivePackets(wire, SubSeq(out, 1, sends))
       /\ (sends < Len(out) /\ wire # <<>>) => Len(wire[Len(wire)]) = READ_BUFFER_SIZE
       /\ (pc = "idle" /\ result = "Ok") => Flatten(wire) = out
       /\ pc = "timer" => Elapsed(OfPacket(sent, sends)) < WRITE_RETRY_TIMEOUT_MS
       /\ pc = "idle" /\ result \in WriteErrors
          => /\ sends < Len(out)
             /\ sent[Len(sent)].outcome = result
             /\ sent[Len(sent)].offset = sends
             /\ result = "BufferOverflow"
                => Elapsed(OfPacket(sent, sends)) >= WRITE_RETRY_TIMEOUT_MS
       /\ pc # "idle" => result = "Pending"

\* The second packet of a frame is retried although the first packet was
\* written only after the time of a whole deadline.
C31_Witness ==
    /\ call = "send_framed_payload"
    /\ pc = "timer"
    /\ Len(wire) = 1
    /\ Elapsed(sent) > WRITE_RETRY_TIMEOUT_MS
    /\ Elapsed(OfPacket(sent, sends)) < WRITE_RETRY_TIMEOUT_MS

\* A frame of three packets has failed at its second packet.
SecondPacketFailed ==
    /\ call = "send_framed_payload"
    /\ pc = "idle"
    /\ result = "Disabled"
    /\ Len(wire) = 1
    /\ Len(out) > 2 * READ_BUFFER_SIZE

\* The signal holds nothing or the pattern signalled last, the indicator
\* task never holds or shows a pattern that was overwritten in the signal,
\* and what it holds is not older than what it shows.
FreshestOnly ==
    /\ Len(wire) <= 1
    /\ wire # <<>> => wire[1].n = sends
    /\ \A i \in 1..Len(sent) :
          /\ data # <<>> => data[1] # sent[i]
          /\ out # <<>> => out[1] # sent[i]
    /\ (data # <<>> /\ out # <<>>) => out[1].n <= data[1].n
    /\ (data # <<>> /\ wire # <<>>) => data[1].n < wire[1].n

\* C32: the status signal holds one pattern at most, the one signalled last;
\* a pattern overwritten before it was taken is never taken or shown; and
\* the indicator task comes to show the pattern signalled last, for good
\* once no other is signalled.
C32_LastWriteWins ==
    /\ []FreshestOnly
    /\ <>[](sends > 0 => (wire = <<>> /\ out # <<>> /\ out[1].n = sends))

\* A pattern was overwritten in the signal and the one that replaced it is
\* shown.
C32_Witness ==
    /\ sent # <<>>
    /\ out # <<>>
    /\ out[1].n = sends
    /\ sent[Len(sent)].n = sends - 1
    /\ wire = <<>>

\* C33: every byte of consume's argument is examined in WaitForHandshake or
\* WaitForMessage: it is appended to the handshake buffer (which is emptied
\* when the byte ends a line) or to the frame buffer, or it finds the buffer
\* full, which is emptied, the full frame buffer with the error
\* InvalidChecksum; the arm that drops the byte is never taken.
C33_NoByteIgnored ==
    /\ [](pc = "byte" => sm.state \in {WaitForHandshake, WaitForMessage})
    /\ [][(pc = "byte" /\ pc' # "byte")
          => \E byte \in {Head(data)} :
                /\ data' = Tail(data)
                /\ \/ /\ sm.state = WaitForHandshake
                      /\ IF Len(sm.handshake_buf) >= HANDSHAKE_BUFFER_SIZE
                         THEN sm' = [sm EXCEPT !.handshake_buf = <<>>]
                         ELSE /\ sm'.handshake_buf
                                    \in {Append(sm.handshake_buf, byte), <<>>}
                              /\ sm'.handshake_buf = <<>> => byte = HANDSHAKE_DELIMITER[1]
                   \/ /\ sm.state = WaitForMessage
                      /\ IF Len(sm.frame_buf) >= FRAME_BUFFER_SIZE
                         THEN /\ sm'.frame_buf = <<>>
                              /\ sm'.state = ErrorState("InvalidChecksum")
                         ELSE sm' = [sm EXCEPT !.frame_buf = Append(sm.frame_buf, byte)]
         ]_vars

\* The bytes of a chunk have filled the frame buffer and the next byte of
\* the chunk is to be examined.
C33_Witness ==
    /\ call = "consume"
    /\ pc = "byte"
    /\ sm.state = WaitForMessage
    /\ Len(sm.frame_buf) = FRAME_BUFFER_SIZE
    /\ sm.frame_buf[FRAME_BUFFER_SIZE] = Head(data)

\* C34: in WaitForHandshake and in WaitForMessage the command buffer and the
\* response buffer are empty and no command is pending.
C34_WaitingStatesClean ==
    sm.state \in {WaitForHandshake, WaitForMessage}
    => /\ sm.command_buf = <<>>
       /\ sm.response_buf = <<>>
       /\ sm.pending_command = NoCommand

\* An echo command has been answered and the machine waits for the next
\* message with nothing left of it.
C34_Witness ==
    /\ pc = "idle"
    /\ call = "consume"
    /\ sm.state = WaitForMessage
    /\ sent # <<>>
    /\ Flatten(sent) = Frame(ECHO_PREFIX \o <<104, 105>>)
    /\ sm.response_buf = <<>>
    /\ sm.command_buf = <<>>

\* C35: when advance comes to its ExecuteAction arm a command is pending;
\* while the handler is awaited the command has been taken and the response
\* buffer holds nothing from before; SendResponse is entered from
\* ExecuteAction only with what the handler of the command wrote: the prefix
\* and the payload of an echo, the byte of an I2C read.
C35_HandlerAlwaysRuns ==
    /\ [](sm.state = ExecuteAction
          => /\ pc \in {"advance", "handler"}
             /\ pc = "advance" => /\ sm.pending_command # NoCommand
                                  /\ sm.command_buf = <<>>
             /\ pc = "handler" => /\ sm.pending_command = NoCommand
                                  /\ sm.response_buf = <<>>)
    /\ [][(sm.state = ExecuteAction /\ sm'.state = SendResponse)
          => \/ /\ pc = "advance"
                /\ sm.pending_command.kind = "EchoWrite"
                /\ sm'.response_buf = ECHO_PREFIX \o sm.pending_command.payload
             \/ /\ pc = "handler"
                /\ \E o \in I2cOutcomes :
                      o.res = "Ok" /\ sm'.response_buf = <<o.byte>>
         ]_vars

\* The echo handler has run and its response is to be sent.
C35_Witness ==
    /\ pc = "advance"
    /\ call = "consume"
    /\ sm.state = SendResponse
    /\ sm.response_buf = EchoResponse
    /\ sm.pending_command = NoCommand

IsFramePacket(packet) == packet # HANDSHAKE_RESPONSE

\* The bytes are encoded frames one after the other and nothing else.
RECURSIVE WholeFrames(_)
WholeFrames(bytes) ==
    \/ bytes = <<>>
    \/ \E f \in {take_from_bytes(bytes)} :
          /\ f.tag = "Ok"
          /\ Len(f.remaining) < Len(bytes)
          /\ WholeFrames(f.remaining)

\* What the entry point called last has written beside handshake responses.
FramedBytesWritten == Flatten(SelectSeq(sent, IsFramePacket))

\* C36: what the firmware writes after the handshake response is a
\* sequence of whole frames: when an entry point starts to write, what the
\* entry point before it has written is whole frames, also when that one
\* returned the error of a write.
C36_WholeFramesOnly ==
    [][(/\ pc = "idle"
        /\ pc' # "idle"
        /\ out' # <<>>
        /\ sm.handshake_complete
        /\ sm'.handshake_complete)
       => WholeFrames(FramedBytesWritten)]_vars

\* What the code does: an entry point that returned Ok has written whole
\* frames, and one that returned the error of a write has written whole
\* frames and then the packets before the failed one of the frame of the
\* response buffer, which it keeps.
WholeFramesUnlessWriteFailed ==
    pc = "idle"
    => IF result \in WriteErrors
       THEN \E n \in 0..Len(sent) :
               /\ WholeFrames(Flatten(SelectSeq(SubSeq(sent, 1, n), IsFramePacket)))
               /\ \/ n = Len(sent)
                  \/ /\ Len(sent) - n <= Len(framed_packets(sm.response_buf))
                     /\ SubSeq(sent, n + 1, Len(sent))
                           = SubSeq(framed_packets(sm.response_buf), 1, Len(sent) - n)
       ELSE WholeFrames(FramedBytesWritten)

\* After the handshake the first packet of an error frame was written and
\* the second failed: the machine keeps the error to send the frame again.
PartialFrameWritten ==
    /\ pc = "idle"
    /\ result = "BufferOverflow"
    /\ sm.handshake_complete
    /\ sm.state.tag = "Error"
    /\ Len(sent) = 1
    /\ ~WholeFrames(FramedBytesWritten)

\* C37: the handshake is marked complete by the step in which the write of
\* the handshake response returns Ok and by no other; when that write fails
\* the handshake stays incomplete, the state WaitForHandshake and the
\* deadline armed as it was; and the response is written only while the
\* handshake is incomplete, which only a reset or a timeout makes it again.
C37_CompleteAfterWrite ==
    /\ [](pc = "handshake_response"
          => /\ ~sm.handshake_complete
             /\ sm.state = WaitForHandshake
             /\ sm.handshake_deadline # NONE
             /\ out = <<HANDSHAKE_RESPONSE>>)
    /\ [][(~sm.handshake_complete /\ sm'.handshake_complete)
          => /\ pc = "handshake_response"
             /\ sent' = Append(sent, HANDSHAKE_RESPONSE)]_vars
    /\ [][(pc = "handshake_response" /\ pc' # "handshake_response")
          => \/ /\ sent' = Append(sent, HANDSHAKE_RESPONSE)
                /\ sm'.handshake_complete
                /\ sm'.state # WaitForHandshake
             \/ /\ sent' = sent
                /\ result' \in WriteErrors
                /\ ~sm'.handshake_complete
                /\ sm'.state = WaitForHandshake
                /\ sm'.handshake_deadline = sm.handshake_deadline]_vars
    /\ [][(sm.handshake_complete /\ ~sm'.handshake_complete)
          => /\ pc = "idle"
             /\ call' \in {"reset", "handle_handshake_timeout"}]_vars

\* The write of the handshake response failed: consume returned the error in
\* WaitForHandshake with the line consumed and the deadline armed.
C37_Witness ==
    /\ pc = "idle"
    /\ call = "consume"
    /\ result \in WriteErrors
    /\ sm.state = WaitForHandshake
    /\ ~sm.handshake_complete
    /\ sm.handshake_buf = <<>>
    /\ sm.handshake_deadline # NONE
    /\ sent = <<>>

\* A handshake completed after the write of an earlier response had failed.
HandshakeCompletedOnSecondTry ==
    /\ pc = "idle"
    /\ call = "consume"
    /\ result = "Ok"
    /\ sm.handshake_complete
    /\ faults.write_fails > 0
    /\ faults.overflows = 0
    /\ sent = <<HANDSHAKE_RESPONSE>>

\* The bytes begin a frame that more bytes complete: the length prefix is
\* cut short, or it is whole and fewer payload bytes than it counts follow.
IsProperPrefixOfFrame(bytes) ==
    \E v \in {try_take_varint(bytes \o <<1>>, 0, 0)} :
        /\ v.tag = "Ok"
        /\ \/ v.used = Len(bytes) + 1
           \/ Len(bytes) - v.used < v.val

\* consume has returned Ok with the machine in WaitForMessage.
ConsumeReturnedWaiting ==
    /\ pc = "idle"
    /\ call = "consume"
    /\ result = "Ok"
    /\ sm.state = WaitForMessage

\* C38: when consume returns Ok in WaitForMessage the frame buffer holds no
\* complete frame: it is empty or a proper prefix of one frame, and within
\* its capacity.
C38_NoFrameWaits ==
    ConsumeReturnedWaiting
    => /\ Len(sm.frame_buf) <= FRAME_BUFFER_SIZE
       /\ take_from_bytes(sm.frame_buf).tag # "Ok"
       /\ \/ sm.frame_buf = <<>>
          \/ IsProperPrefixOfFrame(sm.frame_buf)

\* consume answered a frame and returned with the start of the next frame
\* in the frame buffer.
C38_Witness ==
    /\ ConsumeReturnedWaiting
    /\ sm.frame_buf # <<>>
    /\ sent # <<>>
    /\ sm.handshake_complete

\* The sizes of the firmware as built.
SOURCE_MAX_COMMAND_SIZE == 256
SOURCE_ENCODED_FRAME_BUFFER_SIZE == 320

\* Every payload of up to max bytes encodes to a frame of at most size bytes.
EveryResponseFits(max, size) ==
    \A n \in 0..max : Len(encode_varint(n)) + n <= size

\* C39: framing a response or an error never fails for lack of space: every
\* length the response buffer can have encodes to at most
\* ENCODED_FRAME_BUFFER_SIZE bytes (the sizes are constants: they are
\* compared where the machine is new), and the arms SendResponse and Error of
\* advance always stop at the write of the frame, never going on to the next
\* state with nothing sent.
C39_FramingNeverFails ==
    /\ [](/\ sm = new
             => /\ EveryResponseFits(MAX_COMMAND_SIZE, ENCODED_FRAME_BUFFER_SIZE)
                /\ EveryResponseFits(SOURCE_MAX_COMMAND_SIZE,
                                     SOURCE_ENCODED_FRAME_BUFFER_SIZE)
          /\ Len(sm.response_buf) <= MAX_COMMAND_SIZE
          /\ pc \in {"flush_response", "flush_error"}
             => encode_into(sm.response_buf, ENCODED_FRAME_BUFFER_SIZE).tag = "Ok")
    /\ [][(/\ pc = "advance"
           /\ sm.state = SendResponse \/ sm.state.tag = "Error"
           /\ sm'.state # sm.state \/ pc' # pc)
          => /\ pc' = IF sm.state = SendResponse THEN "flush_response"
                      ELSE "flush_error"
             /\ sm'.state = sm.state
             /\ sm'.response_buf # <<>>]_vars

\* An error is being sent in a frame of more than one packet.
C39_Witness ==
    /\ pc = "flush_error"
    /\ Len(sm.response_buf) > READ_BUFFER_SIZE
    /\ call = "consume"

(***************************************************************************)
(* The host application: the loop of App::run, the actions it handles and  *)
(* the connection tasks it spawns.  sm is the App with the is_active flag  *)
(* of each screen, wire the action channel, data the connection tasks in   *)
(* the order they were spawned, pc "select" (the loop waits for an event   *)
(* or an action) or "drain" (drain_pending_actions runs), out what the     *)
(* last Render drew, sent the attempts the user cancelled with Esc, call   *)
(* the action handled last and result the task it came from, sends the     *)
(* number of keys pressed.  Quit, Tick, Resize, the help overlay and the   *)
(* frames the reader decodes are left out: they change none of these.      *)
(***************************************************************************)
MaxConnects == 2
MaxKeys == 3
MaxPending == 3

\* An action in the channel; task is the connection task it stems from.
ActionOf(name, task) == [name |-> name, task |-> task]

\* App::new and the new() of the four screens.
App_new ==
    [mode |-> "Preconnect", serial_tx |-> NONE,
     preconnect |-> TRUE, connecting |-> FALSE, error |-> FALSE,
     terminal |-> FALSE]

\* The receiver of a task's command channel is alive: the task holds it
\* until establish_serial_stream fails, and then the writer until it ends.
rx_open(task) == task.at \in {"establish", "session", "writing"}

\* The update of the four screens: their is_active flags.
update_components(app, name) ==
    CASE name = "ShowPreconnect" ->
            [app EXCEPT !.preconnect = TRUE, !.connecting = FALSE,
                        !.error = FALSE, !.terminal = FALSE]
      [] name = "ShowConnecting" ->
            [app EXCEPT !.preconnect = FALSE, !.connecting = TRUE,
                        !.terminal = FALSE]
      [] name = "ShowMain" ->
            [app EXCEPT !.preconnect = FALSE, !.connecting = FALSE,
                        !.terminal = TRUE]
      [] name = "ShowError" ->
            [app EXCEPT !.preconnect = FALSE, !.connecting = FALSE,
                        !.error = TRUE, !.terminal = FALSE]
      [] name \in {"ConnectionEstablished", "ConnectionFailed"} ->
            [app EXCEPT !.connecting = FALSE]
      [] OTHER -> app

\* The arm of handle_action for action a: the App after it, what it sends to
\* the action channel, and the task it spawns or hands a command.
handle_action(app, tasks, a) ==
    CASE a.name = "ShowPreconnect" ->
            [app |-> [app EXCEPT !.mode = "Preconnect", !.serial_tx = NONE],
             send |-> <<ActionOf("Render", NONE)>>, tasks |-> tasks]
      [] a.name = "ShowConnecting" ->
            [app |-> [app EXCEPT !.mode = "Connecting"],
             send |-> <<ActionOf("Render", NONE)>>, tasks |-> tasks]
      [] a.name = "ShowMain" ->
            [app |-> [app EXCEPT !.mode = "Main"],
             send |-> <<ActionOf("Render", NONE)>>, tasks |-> tasks]
      [] a.name = "ShowError" ->
            [app |-> [app EXCEPT !.mode = "Error"],
             send |-> <<ActionOf("Render", NONE)>>, tasks |-> tasks]
      [] a.name = "Connect" ->
            [app |-> [app EXCEPT !.mode = "Connecting",
                                 !.serial_tx = Len(tasks) + 1],
             send |-> <<ActionOf("ShowConnecting", NONE)>>,
             tasks |-> Append(tasks, [at |-> "establish", got |-> FALSE])]
      [] a.name = "ConnectionEstablished" ->
            [app |-> app,
             send |-> <<ActionOf("ShowMain", a.task),
                        ActionOf("IncomingMessage", a.task)>>,
             tasks |-> tasks]
      [] a.name = "ConnectionFailed" ->
            [app |-> [app EXCEPT !.serial_tx = NONE],
             send |-> <<ActionOf("ShowError", a.task)>>, tasks |-> tasks]
      [] a.name = "SendCommand" ->
            IF app.serial_tx = NONE
            THEN [app |-> app, send |-> <<ActionOf("ConnectionFailed", NONE)>>,
                  tasks |-> tasks]
            ELSE IF rx_open(tasks[app.serial_tx])
            THEN [app |-> app, send |-> <<ActionOf("CommandSent", NONE)>>,
                  tasks |-> [tasks EXCEPT ![app.serial_tx].got = TRUE]]
            ELSE [app |-> [app EXCEPT !.serial_tx = NONE],
                  send |-> <<ActionOf("ConnectionFailed", NONE)>>,
                  tasks |-> tasks]
      [] OTHER -> [app |-> app, send |-> <<>>, tasks |-> tasks]

\* What Render draws: the screens that are active, and whether the App has
\* a serial writer channel.
Drawn(app) ==
    <<[terminal |-> app.terminal, connecting |-> app.connecting,
       serial_tx |-> app.serial_tx # NONE]>>

InitApp ==
    /\ sm = App_new
    /\ wire = <<>>
    /\ data = <<>>
    /\ pc = "select"
    /\ out = <<>>
    /\ sent = <<>>
    /\ call = "new"
    /\ result = NONE
    /\ sends = 0
    /\ faults = [overflows |-> 0, write_fails |-> 0]

\* handle_action takes the next action of the channel: in the loop of run
\* or in drain_pending_actions.
HandleNext ==
    /\ wire # <<>>
    /\ \E a \in {Head(wire)} :
          \E r \in {handle_action(sm, data, a)} :
             /\ sm' = update_components(r.app, a.name)
             /\ wire' = Tail(wire) \o r.send
             /\ data' = r.tasks
             /\ call' = a.name
             /\ result' = a.task
             /\ out' = IF a.name = "Render" THEN Drawn(sm) ELSE out
    /\ pc' = "drain"
    /\ UNCHANGED <<sent, sends, faults>>

\* drain_pending_actions finds the channel empty and the loop awaits again.
DrainDone ==
    /\ pc = "drain"
    /\ wire = <<>>
    /\ pc' = "select"
    /\ UNCHANGED <<sm, wire, data, out, sent, call, result, sends, faults>>

\* What the screens send for Esc: the connecting screen and the error
\* screen, when active, ShowPreconnect.
keys_Esc(app) ==
    (IF app.connecting THEN <<ActionOf("ShowPreconnect", NONE)>> ELSE <<>>)
    \o (IF app.error THEN <<ActionOf("ShowPreconnect", NONE)>> ELSE <<>>)

\* What the screens send for Enter: the selection Connect, the error screen
\* ShowPreconnect, the terminal SendCommand when a command was typed.
keys_Enter(app, typed) ==
    (IF app.preconnect THEN <<ActionOf("Connect", NONE)>> ELSE <<>>)
    \o (IF app.error THEN <<ActionOf("ShowPreconnect", NONE)>> ELSE <<>>)
    \o (IF app.terminal /\ typed THEN <<ActionOf("SendCommand", NONE)>> ELSE <<>>)

\* The user presses Esc.  While the connecting screen is active this cancels
\* the attempt under way, that of the task spawned last.
KeyEsc ==
    /\ pc = "select"
    /\ sends < MaxKeys
    /\ keys_Esc(sm) # <<>>
    /\ wire' = wire \o keys_Esc(sm)
    /\ sent' = IF sm.connecting /\ data # <<>> THEN Append(sent, Len(data)) ELSE sent
    /\ sends' = sends + 1
    /\ pc' = "drain"
    /\ UNCHANGED <<sm, data, out, call, result, faults>>

\* The user presses Enter.
KeyEnter(typed) ==
    /\ pc = "select"
    /\ sends < MaxKeys
    /\ keys_Enter(sm, typed) # <<>>
    /\ sm.preconnect => Len(data) < MaxConnects
    /\ wire' = wire \o keys_Enter(sm, typed)
    /\ sends' = sends + 1
    /\ pc' = "drain"
    /\ UNCHANGED <<sm, data, out, sent, call, result, faults>>

\* The terminal's render event.
RenderEvent ==
    /\ pc = "select"
    /\ Len(wire) < MaxPending
    /\ \A n \in 1..Len(wire) : wire[n].name # "Render"
    /\ wire' = Append(wire, ActionOf("Render", NONE))
    /\ pc' = "drain"
    /\ UNCHANGED <<sm, data, out, sent, call, result, sends, faults>>

\* establish_serial_stream returned the stream: the task sends
\* ConnectionEstablished and ShowMain and runs the serial session.
EstablishOk(t) ==
    /\ t \in 1..Len(data)
    /\ data[t].at = "establish"
    /\ data' = [data EXCEPT ![t].at = "session"]
    /\ wire' = wire \o <<ActionOf("ConnectionEstablished", t), ActionOf("ShowMain", t)>>
    /\ UNCHANGED <<sm, pc, out, sent, call, result, sends, faults>>

\* establish_serial_stream returned an error: the task sends
\* ConnectionFailed and ends.
EstablishFails(t) ==
    /\ t \in 1..Len(data)
    /\ data[t].at = "establish"
    /\ data' = [data EXCEPT ![t].at = "ended"]
    /\ wire' = Append(wire, ActionOf("ConnectionFailed", t))
    /\ UNCHANGED <<sm, pc, out, sent, call, result, sends, faults>>

\* The reader of the session ends: the connection closed, a read failed or
\* a frame did not decode.
ReaderFails(t) ==
    /\ t \in 1..Len(data)
    /\ data[t].at \in {"session", "reading"}
    /\ data' = [data EXCEPT ![t].at = IF @ = "session" THEN "writing" ELSE "ended"]
    /\ wire' = Append(wire, ActionOf("ConnectionFailed", t))
    /\ UNCHANGED <<sm, pc, out, sent, call, result, sends, faults>>

\* The writer of the session fails to write a command it received.
WriterFails(t) ==
    /\ t \in 1..Len(data)
    /\ data[t].at \in {"session", "writing"}
    /\ data[t].got
    /\ data' = [data EXCEPT ![t].at = IF @ = "session" THEN "reading" ELSE "ended"]
    /\ wire' = Append(wire, ActionOf("ConnectionFailed", t))
    /\ UNCHANGED <<sm, pc, out, sent, call, result, sends, faults>>

\* The writer of the session ends: the App has dropped the sender.
WriterClosed(t) ==
    /\ t \in 1..Len(data)
    /\ data[t].at \in {"session", "writing"}
    /\ sm.serial_tx # t
    /\ data' = [data EXCEPT ![t].at = IF @ = "session" THEN "reading" ELSE "ended"]
    /\ UNCHANGED <<sm, wire, pc, out, sent, call, result, sends, faults>>

NextApp ==
    \/ HandleNext
    \/ DrainDone
    \/ KeyEsc
    \/ \E typed \in BOOLEAN : KeyEnter(typed)
    \/ RenderEvent
    \/ \E t \in 1..MaxConnects :
          \/ EstablishOk(t)
          \/ EstablishFails(t)
          \/ ReaderFails(t)
          \/ WriterFails(t)
          \/ WriterClosed(t)

SpecApp == InitApp /\ [][NextApp]_vars

\* The attempts the user cancelled.
Cancelled == {sent[n] : n \in 1..Len(sent)}

\* C40: whenever the mode is Main the App has a serial writer channel, no
\* Render draws the terminal without one, and no cancelled attempt moves the
\* App to Main.
C40_MainHasWriter ==
    /\ sm.mode = "Main" => sm.serial_tx # NONE
    /\ out # <<>> /\ out[1].terminal => out[1].serial_tx
    /\ ~(call = "ShowMain" /\ result \in Cancelled)

\* The user cancelled the only attempt with Esc, the task completed the
\* handshake afterwards, and the terminal was drawn with no writer channel.
CancelledAttemptShown ==
    /\ Len(data) = 1
    /\ sent = <<1>>
    /\ sm.mode = "Main"
    /\ sm.serial_tx = NONE
    /\ out = <<[terminal |-> TRUE, connecting |-> FALSE, serial_tx |-> FALSE]>>

\* An attempt that was not cancelled and whose task runs its session is
\* shown: the terminal is drawn with the writer channel of that task.
ConnectedShown ==
    /\ sent = <<>>
    /\ sm.mode = "Main"
    /\ sm.serial_tx = 1
    /\ data[1].at = "session"
    /\ out = <<[terminal |-> TRUE, connecting |-> FALSE, serial_tx |-> TRUE]>>

\* What the code does keep: the writer channel the App holds is that of the
\* task spawned last, and the mode is Main only after a ShowMain.
WriterOfLastTask ==
    /\ sm.serial_tx # NONE => sm.serial_tx = Len(data)
    /\ sm.mode = "Main" => sm.terminal
    /\ sm.terminal => data # <<>>

====
